---- MODULE Spec2Model ----
(***************************************************************************)
(* Reply-generation pipeline of the support chat backend:                  *)
(* GeminiProvider.generateReply (backend/src/services/llm/gemini.ts).      *)
(*                                                                         *)
(* A string is a sequence of one-character strings, so that trim, slice    *)
(* and includes are computed character by character as the code does.      *)
(* Each generateReply invocation is a process with its own loop variable,  *)
(* its own timeout timers and its own backend requests.  The steps of a    *)
(* process are the points where the async function is suspended: the       *)
(* await of Promise.race (line 52) and the await of sleep (line 91).       *)
(*                                                                         *)
(* The POST /chat/message handler (backend/src/routes/chat.ts) is a        *)
(* process per request around that call: it validates the body, finds or   *)
(* creates the conversation, stores the user turn, fetches the history,    *)
(* reads the cache, gets the provider, calls generateReply, stores the AI  *)
(* turn, writes the cache and responds; its steps are its awaits.          *)
(***************************************************************************)
EXTENDS Integers, Sequences, FiniteSets, TLC

VARIABLES
    pc,            \* position of each generateReply invocation
    attempt,       \* the loop variable `attempt` (line 37)
    backendCalls,  \* number of model.generateContent calls started (line 53)
    inflight,      \* attempts whose generateContent promise is unsettled
    timers,        \* attempts whose setTimeout (line 49) has not fired yet
    sleeps,        \* the delays passed to this.sleep (line 91), in order
    log,           \* how each attempt's race settled and was classified
    lastError,     \* the variable `lastError` (lines 34, 73): its message
    lastThrown,    \* the value caught by the catch clause of the last attempt
    rawText,       \* response.text() of the attempt that resolved (line 63)
    result,        \* the value generateReply returned
    args,          \* the arguments (history, userMessage) of each invocation
    prompts,       \* the prompts passed to generateContent (line 53), in order
    oracle,        \* the answer of a deterministic backend to each prompt
    apiKey,        \* whether process.env.GEMINI_API_KEY is set
    redisEnabled,  \* whether the Redis cache is connected
    llmProvider,   \* the module variable of chat.ts line 23: an instance or null
    createCalls,   \* how each createLLMProvider call ended, in order
    conversations, \* the ids of the conversation table
    messages,      \* the rows of the message table, in createdAt order
    cache,         \* the cached message list of each conversation that has one
    faults,        \* the database operations that have failed so far
    rpc,           \* where each POST /chat/message request stands
    body,          \* the body of each request
    loc,           \* the local variables of each request
    response,      \* the response sent to each request
    now,           \* the time, in half minutes
    chatLimit,     \* the counter of chatRateLimiter for the one client IP
    apiLimit,      \* the counter of apiRateLimiter for the one client IP
    traffic,       \* what the client has sent and what it was answered
    reactions,     \* the column `reaction` of the rows where it was written
    apiResponse    \* the last response of the history and reaction routes

coreVars == <<pc, attempt, backendCalls, inflight, timers, sleeps, log,
              lastError, lastThrown, rawText, result, prompts>>

\* The state of the chat route and of what it talks to.
routeVars == <<apiKey, redisEnabled, llmProvider, createCalls, conversations,
               messages, cache, faults, rpc, body, loc, response>>

\* The state of the rate limiters and of the other routes.
sideVars == <<now, chatLimit, apiLimit, traffic, reactions, apiResponse>>

\* What the steps of generateReply read and never write.
outerVars == <<args, oracle, routeVars, sideVars>>

vars == <<coreVars, outerVars>>

\* The generateReply invocations of one process (one per HTTP request);
\* they share nothing but the provider instance.
Calls == {"r1", "r2"}

-----------------------------------------------------------------------------
(* Program constants *)

MAX_INPUT_TOKENS == 4000
MAX_RETRIES == 3
RETRY_DELAY_MS == 1000
TIMEOUT_MS == 30000
RESPONSE_CAP == 2000
MAX_MESSAGE_LENGTH == 5000

\* U+2014, the one non-ASCII character of the fallback message.
EM_DASH == "u2014"

\* U+2013, the non-ASCII character of the system prompt.
EN_DASH == "u2013"

\* Characters String.prototype.trim removes.
WhiteSpace == {" ", "\n", "\t", "\r"}

-----------------------------------------------------------------------------
(* Bounds of the model *)

\* The longest backend text is RESPONSE_CAP + MaxOver characters plus padding.
MaxOver == 1

\* The longest history given to the prompt assembler has MaxTurns turns.
MaxTurns == 2

-----------------------------------------------------------------------------
(* String helpers: String.prototype.trim, slice(0, n), includes *)

Min(a, b) == IF a < b THEN a ELSE b

\* Index of the first non-whitespace character, Len(s) + 1 if there is none.
RECURSIVE FirstNonWs(_, _)
FirstNonWs(s, i) ==
    IF i > Len(s) THEN i
    ELSE IF s[i] \in WhiteSpace THEN FirstNonWs(s, i + 1) ELSE i

\* Index of the last non-whitespace character, 0 if there is none.
RECURSIVE LastNonWs(_, _)
LastNonWs(s, i) ==
    IF i < 1 THEN 0
    ELSE IF s[i] \in WhiteSpace THEN LastNonWs(s, i - 1) ELSE i

Trim(s) == SubSeq(s, FirstNonWs(s, 1), LastNonWs(s, Len(s)))

\* s.slice(0, n)
SliceHead(s, n) == SubSeq(s, 1, Min(Len(s), n))

\* s.includes(sub)
Includes(s, sub) ==
    \E i \in 0..(Len(s) - Len(sub)) : SubSeq(s, i + 1, i + Len(sub)) = sub

\* Math.pow(2, k) for the loop's small integers.
RECURSIVE Pow2(_)
Pow2(k) == IF k <= 0 THEN 1 ELSE 2 * Pow2(k - 1)

Last(s) == s[Len(s)]

-----------------------------------------------------------------------------
(* Strings of the program *)

\* getFallbackMessage(): "Sorry - our support agent is having trouble
\* right now. Please try again shortly." (with an em dash)
getFallbackMessage ==
    <<"S", "o", "r", "r", "y", " ", EM_DASH, " ", "o", "u", "r", " ", "s",
      "u", "p", "p", "o", "r", "t", " ", "a", "g", "e", "n", "t", " ", "i",
      "s", " ", "h", "a", "v", "i", "n", "g", " ", "t", "r", "o", "u", "b",
      "l", "e", " ", "r", "i", "g", "h", "t", " ", "n", "o", "w", ".", " ",
      "P", "l", "e", "a", "s", "e", " ", "t", "r", "y", " ", "a", "g", "a",
      "i", "n", " ", "s", "h", "o", "r", "t", "l", "y", ".">>

\* SYSTEM_PROMPT (lines 4-12)
SYSTEM_PROMPT ==
    <<"Y", "o", "u", " ", "a", "r", "e", " ", "a", " ", "h", "e", "l", "p",
      "f", "u", "l", " ", "s", "u", "p", "p", "o", "r", "t", " ", "a", "g",
      "e", "n", "t", " ", "f", "o", "r", " ", "a", " ", "s", "m", "a", "l",
      "l", " ", "e", "-", "c", "o", "m", "m", "e", "r", "c", "e", " ", "s",
      "t", "o", "r", "e", ".", " ", "A", "n", "s", "w", "e", "r", " ", "c",
      "l", "e", "a", "r", "l", "y", " ", "a", "n", "d", " ", "c", "o", "n",
      "c", "i", "s", "e", "l", "y", ".", "\n", "\n", "F", "A", "Q", " ",
      "D", "o", "m", "a", "i", "n", " ", "K", "n", "o", "w", "l", "e", "d",
      "g", "e", ":", "\n", "-", " ", "S", "h", "i", "p", "p", "i", "n",
      "g", ":", " ", "W", "e", " ", "s", "h", "i", "p", " ", "w", "o", "r",
      "l", "d", "w", "i", "d", "e", " ", "w", "i", "t", "h", " ", "d", "e",
      "l", "i", "v", "e", "r", "y", " ", "i", "n", " ", "5", EN_DASH, "7",
      " ", "b", "u", "s", "i", "n", "e", "s", "s", " ", "d", "a", "y", "s",
      "\n", "-", " ", "R", "e", "t", "u", "r", "n", "s", ":", " ", "3",
      "0", "-", "d", "a", "y", " ", "r", "e", "t", "u", "r", "n", " ", "&",
      " ", "r", "e", "f", "u", "n", "d", " ", "p", "o", "l", "i", "c", "y",
      "\n", "-", " ", "S", "u", "p", "p", "o", "r", "t", " ", "H", "o",
      "u", "r", "s", ":", " ", "9", "a", "m", EN_DASH, "6", "p", "m", " ",
      "I", "S", "T", ",", " ", "M", "o", "n", "d", "a", "y", EN_DASH, "S",
      "a", "t", "u", "r", "d", "a", "y", "\n", "-", " ", "F", "r", "e",
      "e", " ", "S", "h", "i", "p", "p", "i", "n", "g", ":", " ", "F", "r",
      "e", "e", " ", "s", "h", "i", "p", "p", "i", "n", "g", " ", "t", "o",
      " ", "U", "S", "A", " ", "o", "n", " ", "o", "r", "d", "e", "r", "s",
      " ", "o", "v", "e", "r", " ", "$", "5", "0", "\n", "\n", "K", "e",
      "e", "p", " ", "r", "e", "s", "p", "o", "n", "s", "e", "s", " ", "h",
      "e", "l", "p", "f", "u", "l", ",", " ", "p", "r", "o", "f", "e", "s",
      "s", "i", "o", "n", "a", "l", ",", " ", "a", "n", "d", " ", "c", "o",
      "n", "c", "i", "s", "e", ".">>

\* The pieces of the template literal at line 45.
HistoryHeader ==
    <<"\n", "\n", "C", "o", "n", "v", "e", "r", "s", "a", "t", "i", "o",
      "n", " ", "H", "i", "s", "t", "o", "r", "y", ":", "\n">>
UserCue == <<"\n", "\n", "U", "s", "e", "r", ":", " ">>
AssistantCue == <<"\n", "\n", "A", "s", "s", "i", "s", "t", "a", "n", "t", ":">>

\* The role labels of formatHistory (line 109).
Label_User == <<"U", "s", "e", "r">>
Label_Assistant == <<"A", "s", "s", "i", "s", "t", "a", "n", "t">>

\* A timeout message that happens to carry the substring "invalid".
TimeoutMessage_Invalid ==
    <<"L", "L", "M", " ", "r", "e", "q", "u", "e", "s", "t", " ", "t", "i",
      "m", "e", "o", "u", "t", ":", " ", "i", "n", "v", "a", "l", "i", "d",
      " ", "r", "e", "s", "p", "o", "n", "s", "e">>

\* new Error('LLM request timeout') (line 49)
TimeoutMessage ==
    <<"L", "L", "M", " ", "r", "e", "q", "u", "e", "s", "t", " ", "t", "i",
      "m", "e", "o", "u", "t">>

\* 'Unknown error' (line 72)
UnknownError ==
    <<"U", "n", "k", "n", "o", "w", "n", " ", "e", "r", "r", "o", "r">>

\* The substrings tested at lines 77-81.
Sub_API_KEY == <<"A", "P", "I", "_", "K", "E", "Y">>
Sub_401 == <<"4", "0", "1">>
Sub_403 == <<"4", "0", "3">>
Sub_400 == <<"4", "0", "0">>
Sub_invalid == <<"i", "n", "v", "a", "l", "i", "d">>

-----------------------------------------------------------------------------
(* The environment: what the backend can answer or throw *)

Msg_ApiKeyInvalid ==
    <<"A", "P", "I", "_", "K", "E", "Y", "_", "I", "N", "V", "A", "L", "I",
      "D">>
Msg_401 ==
    <<"4", "0", "1", " ", "U", "n", "a", "u", "t", "h", "o", "r", "i", "z",
      "e", "d">>
Msg_403 == <<"4", "0", "3", " ", "F", "o", "r", "b", "i", "d", "d", "e", "n">>
Msg_400 ==
    <<"4", "0", "0", " ", "B", "a", "d", " ", "R", "e", "q", "u", "e", "s",
      "t">>
Msg_InvalidArgument ==
    <<"i", "n", "v", "a", "l", "i", "d", " ", "a", "r", "g", "u", "m", "e",
      "n", "t">>
Msg_PermissionDenied ==
    <<"P", "e", "r", "m", "i", "s", "s", "i", "o", "n", " ", "d", "e", "n",
      "i", "e", "d">>
Msg_503 ==
    <<"5", "0", "3", " ", "S", "e", "r", "v", "i", "c", "e", " ", "U", "n",
      "a", "v", "a", "i", "l", "a", "b", "l", "e">>
Msg_FetchFailed == <<"f", "e", "t", "c", "h", " ", "f", "a", "i", "l", "e", "d">>
Msg_500Invalid ==
    <<"5", "0", "0", " ", "i", "n", "v", "a", "l", "i", "d", " ", "u", "p",
      "s", "t", "r", "e", "a", "m", " ", "r", "e", "p", "l", "y">>

\* A value the backend call can reject with.  isError: the value is an
\* Error object (error instanceof Error); message: its .message, or String(v)
\* of a value that is not an Error; category: what kind of failure it is.
Thrown(isErr, msg, cat) == [isError |-> isErr, message |-> msg, category |-> cat]

ThrownValues ==
    { Thrown(TRUE, Msg_ApiKeyInvalid, "auth"),
      Thrown(TRUE, Msg_401, "auth"),
      Thrown(TRUE, Msg_403, "auth"),
      Thrown(TRUE, Msg_400, "validation"),
      Thrown(TRUE, Msg_InvalidArgument, "validation"),
      Thrown(TRUE, Msg_PermissionDenied, "auth"),
      Thrown(FALSE, Msg_401, "auth"),
      Thrown(TRUE, Msg_503, "transient"),
      Thrown(TRUE, Msg_FetchFailed, "transient"),
      Thrown(TRUE, Msg_500Invalid, "transient") }

\* The rejection of timeoutPromise.
TimeoutError == Thrown(TRUE, TimeoutMessage, "timeout")

\* lastThrown before anything was caught.
NoThrown == Thrown(FALSE, <<>>, "none")

Txt_Returns ==
    <<"3", "0", "-", "d", "a", "y", " ", "r", "e", "t", "u", "r", "n", "s",
      ".">>
Txt_Shipped ==
    <<"S", "h", "i", "p", "p", "e", "d", " ", "i", "n", " ", "5", "-", "7",
      " ", "d", "a", "y", "s", ".">>

Fill(n) == [i \in 1..n |-> "a"]

\* The texts response.text() can return: empty, whitespace only, short,
\* padded, exactly at the cap and over it.
Texts ==
    { <<>>, <<" ">>, <<"\n", " ">>,
      Txt_Returns,
      <<" ", "\n">> \o Txt_Shipped \o <<"\n">>,
      Fill(RESPONSE_CAP) }
    \cup { <<" ">> \o Fill(RESPONSE_CAP + k) \o <<" ">> : k \in 1..MaxOver }

-----------------------------------------------------------------------------
(* The code of generateReply, piece by piece *)

\* The loop condition with an off-by-one.
LoopContinues_OffByOne(a) == a <= MAX_RETRIES

\* for (...; attempt < MAX_RETRIES; ...) (line 37)
LoopContinues(a) == a < MAX_RETRIES

\* A blank test that forgets whitespace-only text.
IsBlank_EmptyOnly(text) == Len(text) = 0

\* !text || text.trim().length === 0 (line 65)
IsBlank(text) == Len(text) = 0 \/ Len(Trim(text)) = 0

\* A success value that is trimmed but not capped.
SuccessValue_NoCap(text) == Trim(text)

\* A success value that is capped but not trimmed.
SuccessValue_NoTrim(text) == SliceHead(text, RESPONSE_CAP)

\* text.trim().slice(0, 2000) (line 70)
SuccessValue(text) == SliceHead(Trim(text), RESPONSE_CAP)

\* error instanceof Error ? error.message : 'Unknown error' (line 72)
ErrorMessageOf(thrown) ==
    IF thrown.isError THEN thrown.message ELSE UnknownError

\* error instanceof Error ? error : new Error(String(error)) (line 73),
\* kept as the message of the resulting Error.
LastErrorOf(thrown) == thrown.message

\* The condition of the `if` at lines 76-82.
IsNonRetryable(errorMessage) ==
    \/ Includes(errorMessage, Sub_API_KEY)
    \/ Includes(errorMessage, Sub_401)
    \/ Includes(errorMessage, Sub_403)
    \/ Includes(errorMessage, Sub_400)
    \/ Includes(errorMessage, Sub_invalid)

\* A backoff that does not grow.
BackoffDelay_Constant(a) == RETRY_DELAY_MS

\* RETRY_DELAY_MS * Math.pow(2, attempt) (line 89)
BackoffDelay(a) == RETRY_DELAY_MS * Pow2(a)

\* A catch clause that goes on after a non-retryable error.
CatchStep_RetriesFatal(nonRetryable, a) ==
    IF a < MAX_RETRIES - 1 THEN "sleep" ELSE "continue"

\* A catch clause that also sleeps after the last attempt.
CatchStep_SleepsAfterLast(nonRetryable, a) ==
    IF nonRetryable THEN "return"
    ELSE IF a < MAX_RETRIES THEN "sleep"
    ELSE "continue"

\* What the catch clause does once the error is classified (lines 76-94):
\* return the fallback, sleep and go on, or fall through to attempt++.
CatchStep(nonRetryable, a) ==
    IF nonRetryable THEN "return"
    ELSE IF a < MAX_RETRIES - 1 THEN "sleep"
    ELSE "continue"

-----------------------------------------------------------------------------
(* Prompt assembly: formatHistory, truncateHistory and line 45 *)

Turn(sender, text) == [sender |-> sender, text |-> text]

\* msg.sender === 'user' ? 'User' : 'Assistant' (line 109)
RoleOf(sender) == IF sender = "user" THEN Label_User ELSE Label_Assistant

\* `${role}: ${msg.text}` (line 110)
HistoryLine(msg) == RoleOf(msg.sender) \o <<":", " ">> \o msg.text

\* lines.join(sep)
RECURSIVE Join(_, _)
Join(lines, sep) ==
    IF Len(lines) = 0 THEN <<>>
    ELSE IF Len(lines) = 1 THEN lines[1]
    ELSE lines[1] \o sep \o Join(Tail(lines), sep)

\* A serialization that puts the newest turn first.
formatHistory_NewestFirst(history) ==
    Join([i \in 1..Len(history) |->
            HistoryLine(history[Len(history) + 1 - i])], <<"\n">>)

\* formatHistory (lines 106-113)
formatHistory(history) ==
    Join([i \in 1..Len(history) |-> HistoryLine(history[i])], <<"\n">>)

\* s.slice(-n) for n > 0
SliceTail(s, n) == SubSeq(s, IF Len(s) > n THEN Len(s) - n + 1 ELSE 1, Len(s))

\* A truncation that estimates the tokens with an integer division.
truncateHistory_FloorEstimate(h) ==
    IF Len(h) \div 4 <= MAX_INPUT_TOKENS THEN h
    ELSE SliceTail(h, MAX_INPUT_TOKENS * 4)

\* truncateHistory (lines 115-126).  estimatedTokens = length / 4 is a
\* real number; estimatedTokens <= MAX_INPUT_TOKENS is compared here with
\* both sides multiplied by 4.
truncateHistory(h) ==
    IF Len(h) <= 4 * MAX_INPUT_TOKENS THEN h
    ELSE SliceTail(h, MAX_INPUT_TOKENS * 4)

\* The template literal of line 45.
BuildPrompt(history, userMessage) ==
    LET conversationHistory == formatHistory(history)
        truncatedHistory == truncateHistory(conversationHistory)
    IN  SYSTEM_PROMPT \o HistoryHeader \o truncatedHistory
            \o UserCue \o userMessage \o AssistantCue

-----------------------------------------------------------------------------
(* State *)

LogEntry(src, class) == [src |-> src, class |-> class]

\* The example of the specification: one earlier turn "Hi" and the
\* question "What's your return policy?".
Txt_Hi == <<"H", "i">>
Msg_ReturnPolicy ==
    <<"W", "h", "a", "t", "'", "s", " ", "y", "o", "u", "r", " ", "r", "e",
      "t", "u", "r", "n", " ", "p", "o", "l", "i", "c", "y", "?">>
ExampleArgs ==
    [history |-> <<Turn("user", Txt_Hi)>>, userMessage |-> Msg_ReturnPolicy]

\* No invocation has started; a holds the arguments each one will get.
InitWith(a) ==
    /\ args = a
    /\ prompts = [c \in Calls |-> <<>>]
    /\ pc = [c \in Calls |-> "idle"]
    /\ attempt = [c \in Calls |-> 0]
    /\ backendCalls = [c \in Calls |-> 0]
    /\ inflight = [c \in Calls |-> {}]
    /\ timers = [c \in Calls |-> {}]
    /\ sleeps = [c \in Calls |-> <<>>]
    /\ log = [c \in Calls |-> <<>>]
    /\ lastError = [c \in Calls |-> <<>>]
    /\ lastThrown = [c \in Calls |-> NoThrown]
    /\ rawText = [c \in Calls |-> <<>>]
    /\ result = [c \in Calls |-> <<>>]

\* The oracle of the specifications whose backend is not deterministic.
NoOracle == << >>

\* The locals of a request that has not run yet.
NoLocals ==
    [trimmedMessage |-> <<>>, sanitizedMessage |-> <<>>, conversationId |-> 0,
     saved |-> FALSE, fetched |-> FALSE, historyMessages |-> <<>>,
     history |-> <<>>, provider |-> 0, providerThrew |-> FALSE,
     aiReply |-> <<>>]

NoBody == [present |-> FALSE, message |-> <<>>, sessionId |-> 0]

NoResponse ==
    [status |-> 0, reply |-> <<>>, sessionId |-> 0, error |-> "",
     details |-> ""]

NoCache == << >>

\* A limiter that has counted nothing.
NoHits == [hits |-> 0, resetTime |-> 0]

\* The client has sent nothing: quota is what it will send in this half
\* minute, cur and prev what it sent in this one and in the one before,
\* total what it sent in all, everOver whether it ever sent more than 20
\* chat messages within one minute, last and limited whether its last
\* chat message and whether any of them was answered 429, health the
\* status of its last GET /health.
NoTraffic ==
    [quota |-> 0, cur |-> 0, prev |-> 0, total |-> 0, everOver |-> FALSE,
     last |-> "none", limited |-> FALSE, health |-> 0]

NoApiResponse ==
    [route |-> "none", point |-> "none", status |-> 0, error |-> <<>>,
     details |-> <<>>, message |-> <<>>, thrown |-> <<>>, target |-> 0,
     reaction |-> "undefined", rows |-> <<>>]

\* No client traffic yet and no reaction set on any row.
NoSide ==
    /\ now = 0
    /\ chatLimit = NoHits
    /\ apiLimit = NoHits
    /\ traffic = NoTraffic
    /\ reactions = << >>
    /\ apiResponse = NoApiResponse

\* generateReply called directly on a provider that exists: no request is
\* running and the store is empty.
NoRequests ==
    /\ apiKey = TRUE
    /\ redisEnabled = FALSE
    /\ llmProvider = 1
    /\ createCalls = <<"constructed">>
    /\ conversations = {}
    /\ messages = <<>>
    /\ cache = NoCache
    /\ faults = 0
    /\ rpc = [c \in Calls |-> "start"]
    /\ body = [c \in Calls |-> NoBody]
    /\ loc = [c \in Calls |-> NoLocals]
    /\ response = [c \in Calls |-> NoResponse]

NoRoute == NoSide /\ NoRequests

Init ==
    /\ InitWith([c \in Calls |-> ExampleArgs])
    /\ oracle = NoOracle
    /\ NoRoute

\* `return value` out of generateReply.
Return(c, value) ==
    /\ pc' = [pc EXCEPT ![c] = "done"]
    /\ result' = [result EXCEPT ![c] = value]

\* A loop that writes the number of the attempt at the end of the prompt.
EnterLoop_StampedPrompt(c, a, infl, tmr) ==
    /\ attempt' = [attempt EXCEPT ![c] = a]
    /\ IF LoopContinues(a)
       THEN /\ pc' = [pc EXCEPT ![c] = "racing"]
            /\ backendCalls' = [backendCalls EXCEPT ![c] = @ + 1]
            /\ inflight' = [inflight EXCEPT ![c] = infl \cup {a}]
            /\ timers' = [timers EXCEPT ![c] = tmr \cup {a}]
            /\ prompts' = [prompts EXCEPT ![c] =
                  Append(@, BuildPrompt(args[c].history, args[c].userMessage)
                               \o [i \in 1..a |-> "#"])]
            /\ UNCHANGED result
       ELSE /\ Return(c, getFallbackMessage)
            /\ inflight' = [inflight EXCEPT ![c] = infl]
            /\ timers' = [timers EXCEPT ![c] = tmr]
            /\ UNCHANGED <<backendCalls, prompts>>

\* A loop whose counter is a field of the provider, shared by all calls.
EnterLoop_SharedAttempt(c, a, infl, tmr) ==
    /\ attempt' = [d \in Calls |-> a]
    /\ IF LoopContinues(a)
       THEN /\ pc' = [pc EXCEPT ![c] = "racing"]
            /\ backendCalls' = [backendCalls EXCEPT ![c] = @ + 1]
            /\ inflight' = [inflight EXCEPT ![c] = infl \cup {a}]
            /\ timers' = [timers EXCEPT ![c] = tmr \cup {a}]
            /\ prompts' = [prompts EXCEPT ![c] =
                  Append(@, BuildPrompt(args[c].history, args[c].userMessage))]
            /\ UNCHANGED result
       ELSE /\ pc' = [pc EXCEPT ![c] = "done"]
            /\ result' = [result EXCEPT ![c] = getFallbackMessage]
            /\ inflight' = [inflight EXCEPT ![c] = infl]
            /\ timers' = [timers EXCEPT ![c] = tmr]
            /\ UNCHANGED <<backendCalls, prompts>>

\* The head of the for loop with attempt = a: either the body runs up to
\* the await of Promise.race (lines 38-60: the backend call is started and
\* the timer armed), or the loop ends and line 99 returns the fallback.
\* infl and tmr are the requests and timers still pending at that moment.
EnterLoop(c, a, infl, tmr) ==
    /\ attempt' = [attempt EXCEPT ![c] = a]
    /\ IF LoopContinues(a)
       THEN /\ pc' = [pc EXCEPT ![c] = "racing"]
            /\ backendCalls' = [backendCalls EXCEPT ![c] = @ + 1]
            /\ inflight' = [inflight EXCEPT ![c] = infl \cup {a}]
            /\ timers' = [timers EXCEPT ![c] = tmr \cup {a}]
            /\ prompts' = [prompts EXCEPT ![c] =
                  Append(@, BuildPrompt(args[c].history, args[c].userMessage))]
            /\ UNCHANGED result
       ELSE /\ Return(c, getFallbackMessage)
            /\ inflight' = [inflight EXCEPT ![c] = infl]
            /\ timers' = [timers EXCEPT ![c] = tmr]
            /\ UNCHANGED <<backendCalls, prompts>>

\* The catch clause (lines 71-95) run on the value the race rejected with.
Catch(c, src, thrown, infl, tmr) ==
    LET errorMessage == ErrorMessageOf(thrown)
        nonRetryable == IsNonRetryable(errorMessage)
        step == CatchStep(nonRetryable, attempt[c])
    IN  /\ lastError' = [lastError EXCEPT ![c] = LastErrorOf(thrown)]
        /\ lastThrown' = [lastThrown EXCEPT ![c] = thrown]
        /\ log' = [log EXCEPT ![c] = Append(@,
                     LogEntry(src, IF nonRetryable THEN "nonretryable"
                                                   ELSE "retryable"))]
        /\ CASE step = "return" ->
                  /\ Return(c, getFallbackMessage)
                  /\ inflight' = [inflight EXCEPT ![c] = infl]
                  /\ timers' = [timers EXCEPT ![c] = tmr]
                  /\ UNCHANGED <<attempt, backendCalls, sleeps, prompts>>
             [] step = "sleep" ->
                  /\ pc' = [pc EXCEPT ![c] = "sleeping"]
                  /\ sleeps' = [sleeps EXCEPT ![c] =
                                   Append(@, BackoffDelay(attempt[c]))]
                  /\ inflight' = [inflight EXCEPT ![c] = infl]
                  /\ timers' = [timers EXCEPT ![c] = tmr]
                  /\ UNCHANGED <<attempt, backendCalls, result, prompts>>
             [] OTHER ->
                  /\ EnterLoop(c, attempt[c] + 1, infl, tmr)
                  /\ UNCHANGED sleeps

-----------------------------------------------------------------------------
(* Actions *)

\* The caller invokes generateReply: lines 33-60 up to the first await.
Invoke(c) ==
    /\ pc[c] = "idle"
    /\ EnterLoop(c, 0, {}, {})
    /\ UNCHANGED <<sleeps, log, lastError, lastThrown, rawText, outerVars>>

\* The backend call of the current attempt resolves first with a response
\* whose text() is `text` (lines 62-70).
BackendResolves(c, text) ==
    /\ pc[c] = "racing"
    /\ attempt[c] \in inflight[c]
    /\ rawText' = [rawText EXCEPT ![c] = text]
    /\ inflight' = [inflight EXCEPT ![c] = @ \ {attempt[c]}]
    /\ IF IsBlank(text)
       THEN /\ Return(c, getFallbackMessage)
            /\ log' = [log EXCEPT ![c] = Append(@, LogEntry("resolved", "blank"))]
       ELSE /\ Return(c, SuccessValue(text))
            /\ log' = [log EXCEPT ![c] = Append(@, LogEntry("resolved", "reply"))]
    /\ UNCHANGED <<attempt, backendCalls, timers, sleeps, lastError,
                   lastThrown, prompts, outerVars>>

\* The backend call of the current attempt rejects first (lines 71-95).
BackendRejects(c, thrown) ==
    /\ pc[c] = "racing"
    /\ attempt[c] \in inflight[c]
    /\ Catch(c, "rejected", thrown, inflight[c] \ {attempt[c]}, timers[c])
    /\ UNCHANGED <<rawText, outerVars>>

\* The timer of the current attempt fires first: timeoutPromise rejects
\* (line 49) and the catch clause runs; the backend call is left pending.
TimeoutFires(c) ==
    /\ pc[c] = "racing"
    /\ attempt[c] \in timers[c]
    /\ Catch(c, "timer", TimeoutError, inflight[c], timers[c] \ {attempt[c]})
    /\ UNCHANGED <<rawText, outerVars>>

\* The backoff sleep ends (line 91): attempt++ and the loop head.
SleepDone(c) ==
    /\ pc[c] = "sleeping"
    /\ EnterLoop(c, attempt[c] + 1, inflight[c], timers[c])
    /\ UNCHANGED <<sleeps, log, lastError, lastThrown, rawText, outerVars>>

\* A race that still listens: the response that settles late becomes the
\* result of the call.
LateSettle_TakesResponse(c, a) ==
    /\ a \in inflight[c]
    /\ ~(pc[c] = "racing" /\ a = attempt[c])
    /\ inflight' = [inflight EXCEPT ![c] = @ \ {a}]
    /\ result' = [result EXCEPT ![c] = Txt_Shipped]
    /\ UNCHANGED <<pc, attempt, backendCalls, timers, sleeps, log,
                   lastError, lastThrown, rawText, prompts, outerVars>>

\* A backend call whose race is already over settles: nobody listens.
LateSettle(c, a) ==
    /\ a \in inflight[c]
    /\ ~(pc[c] = "racing" /\ a = attempt[c])
    /\ inflight' = [inflight EXCEPT ![c] = @ \ {a}]
    /\ UNCHANGED <<pc, attempt, backendCalls, timers, sleeps, log,
                   lastError, lastThrown, rawText, result, prompts, outerVars>>

\* A timer whose race is already over fires: the rejection is ignored.
LateTimer(c, a) ==
    /\ a \in timers[c]
    /\ ~(pc[c] = "racing" /\ a = attempt[c])
    /\ timers' = [timers EXCEPT ![c] = @ \ {a}]
    /\ UNCHANGED <<pc, attempt, backendCalls, inflight, sleeps, log,
                   lastError, lastThrown, rawText, result, prompts, outerVars>>

\* One step of the race of the current attempt.
RaceSettles(c) ==
    \/ \E text \in Texts : BackendResolves(c, text)
    \/ \E thrown \in ThrownValues : BackendRejects(c, thrown)
    \/ TimeoutFires(c)

\* One generateReply invocation, r1, with every backend behaviour.
Next ==
    \/ Invoke("r1")
    \/ \E c \in Calls, text \in Texts : BackendResolves(c, text)
    \/ \E c \in Calls, thrown \in ThrownValues : BackendRejects(c, thrown)
    \/ \E c \in Calls : TimeoutFires(c)
    \/ \E c \in Calls : SleepDone(c)
    \/ \E c \in Calls, a \in 0..MAX_RETRIES : LateSettle(c, a)
    \/ \E c \in Calls, a \in 0..MAX_RETRIES : LateTimer(c, a)

Spec == Init /\ [][Next]_vars

\* Overlapping invocations: every call of Calls may be invoked, against a
\* backend with one behaviour of each kind.
ConcTexts == { <<>>, Txt_Returns }
ConcThrown == { Thrown(TRUE, Msg_401, "auth"), Thrown(TRUE, Msg_503, "transient") }

ConcNext ==
    \/ \E c \in Calls : Invoke(c)
    \/ \E c \in Calls, text \in ConcTexts : BackendResolves(c, text)
    \/ \E c \in Calls, thrown \in ConcThrown : BackendRejects(c, thrown)
    \/ \E c \in Calls : TimeoutFires(c)
    \/ \E c \in Calls : SleepDone(c)
    \/ \E c \in Calls, a \in 0..MAX_RETRIES : LateSettle(c, a)
    \/ \E c \in Calls, a \in 0..MAX_RETRIES : LateTimer(c, a)

ConcSpec == Init /\ [][ConcNext]_vars

\* Prompt assembly on its own: the call gets any history of at most
\* MaxTurns turns whose texts are short or bring the serialized history to
\* the input budget and just over it, and a short or a maximal message.
PromptTexts ==
    { Txt_Hi, Fill(4 * MAX_INPUT_TOKENS - 6), Fill(4 * MAX_INPUT_TOKENS - 5) }

PromptTurns == { Turn(sd, tx) : sd \in {"user", "ai"}, tx \in PromptTexts }

PromptHistories == UNION { [1..k -> PromptTurns] : k \in 0..MaxTurns }

PromptMessages == { Msg_ReturnPolicy, Fill(MAX_MESSAGE_LENGTH) }

PromptInit ==
    \E h \in PromptHistories, m \in PromptMessages :
        /\ InitWith([c \in Calls |-> [history |-> h, userMessage |-> m]])
        /\ oracle = NoOracle
        /\ NoRoute

PromptNext ==
    \/ Invoke("r1")
    \/ BackendResolves("r1", Txt_Returns)

PromptSpec == PromptInit /\ [][PromptNext]_vars

\* A backend that is a pure function of the prompt: r1 gets the example
\* arguments and r2 the same or other ones, and the backend answers every
\* prompt the same way each time, with a text or with a failure.  When it
\* answers is not part of the function: the timer of an attempt may still
\* fire first.
Outcome(ok, text, thrown) == [ok |-> ok, text |-> text, thrown |-> thrown]

DetInputs == { ExampleArgs, [history |-> <<>>, userMessage |-> Txt_Hi] }

DetPrompts == { BuildPrompt(a.history, a.userMessage) : a \in DetInputs }

DetOutcomes ==
    { Outcome(TRUE, Txt_Returns, NoThrown),
      Outcome(FALSE, <<>>, Thrown(TRUE, Msg_503, "transient")) }

\* The answer to a prompt; a prompt outside the table is a bad request.
OracleAnswer(prompt) ==
    IF prompt \in DOMAIN oracle THEN oracle[prompt]
    ELSE Outcome(FALSE, <<>>, Thrown(TRUE, Msg_400, "validation"))

DetInit ==
    \E a \in [Calls -> DetInputs], o \in [DetPrompts -> DetOutcomes] :
        a["r1"] = ExampleArgs /\ InitWith(a) /\ oracle = o /\ NoRoute

\* The backend answers the current attempt as the oracle says.
DetResolves(c) ==
    /\ pc[c] = "racing"
    /\ OracleAnswer(Last(prompts[c])).ok
    /\ BackendResolves(c, OracleAnswer(Last(prompts[c])).text)

DetRejects(c) ==
    /\ pc[c] = "racing"
    /\ ~OracleAnswer(Last(prompts[c])).ok
    /\ BackendRejects(c, OracleAnswer(Last(prompts[c])).thrown)

DetNext ==
    \/ \E c \in Calls : Invoke(c)
    \/ \E c \in Calls : DetResolves(c)
    \/ \E c \in Calls : DetRejects(c)
    \/ \E c \in Calls : TimeoutFires(c)
    \/ \E c \in Calls : SleepDone(c)
    \/ \E c \in Calls, a \in 0..MAX_RETRIES : LateSettle(c, a)
    \/ \E c \in Calls, a \in 0..MAX_RETRIES : LateTimer(c, a)

DetSpec == DetInit /\ [][DetNext]_vars

-----------------------------------------------------------------------------
(* The chat route: POST /chat/message (chat.ts) *)

\* take: 20 (line 205) and slice(-20) (line 259, redis service line 123)
HISTORY_LIMIT == 20
CACHE_LIMIT == 20

\* A request without sessionId, and the module variable before the first
\* construction.
NoSession == 0
NoProvider == 0

\* The conversation that exists when the requests arrive.
FirstConversation == 1

\* At most this many database operations fail in one behaviour.
MaxDbFaults == 1

\* The stored conversation holds up to HISTORY_LIMIT + 2 * MaxStoredPairs
\* messages when the requests arrive.
MaxStoredPairs == 1

\* input.replace(/ch/g, rep): every ch becomes rep, computed on the two
\* halves of the string.
RECURSIVE ReplaceAll(_, _, _)
ReplaceAll(s, ch, rep) ==
    IF Len(s) = 0 THEN <<>>
    ELSE IF Len(s) = 1 THEN (IF s[1] = ch THEN rep ELSE s)
    ELSE ReplaceAll(SubSeq(s, 1, Len(s) \div 2), ch, rep)
             \o ReplaceAll(SubSeq(s, Len(s) \div 2 + 1, Len(s)), ch, rep)

Ent_amp == <<"&", "a", "m", "p", ";">>
Ent_lt == <<"&", "l", "t", ";">>
Ent_gt == <<"&", "g", "t", ";">>
Ent_quot == <<"&", "q", "u", "o", "t", ";">>
Ent_apos == <<"&", "#", "x", "2", "7", ";">>
Ent_slash == <<"&", "#", "x", "2", "F", ";">>

\* An escaping that leaves the slash as it is.
sanitizeInput_NoSlash(input) ==
    LET s1 == ReplaceAll(input, "&", Ent_amp)
        s2 == ReplaceAll(s1, "<", Ent_lt)
        s3 == ReplaceAll(s2, ">", Ent_gt)
        s4 == ReplaceAll(s3, "\"", Ent_quot)
    IN  ReplaceAll(s4, "'", Ent_apos)

\* sanitizeInput: six replacements, the ampersand first.
sanitizeInput(input) ==
    LET s1 == ReplaceAll(input, "&", Ent_amp)
        s2 == ReplaceAll(s1, "<", Ent_lt)
        s3 == ReplaceAll(s2, ">", Ent_gt)
        s4 == ReplaceAll(s3, "\"", Ent_quot)
        s5 == ReplaceAll(s4, "'", Ent_apos)
    IN  ReplaceAll(s5, "/", Ent_slash)

\* A schema without the upper limit on the length.
messageSchema_NoMax(b) ==
    IF ~b.present \/ Len(b.message) < 1
    THEN [success |-> FALSE, details |-> "Message cannot be empty",
          message |-> <<>>, sessionId |-> NoSession]
    ELSE [success |-> TRUE, details |-> "", message |-> Trim(b.message),
          sessionId |-> b.sessionId]

\* messageSchema.safeParse: a string is required; min(1) and max(5000)
\* are tested on the string as sent, then it is trimmed.
messageSchema(b) ==
    IF ~b.present
    THEN [success |-> FALSE, details |-> "Required",
          message |-> <<>>, sessionId |-> NoSession]
    ELSE IF Len(b.message) < 1
    THEN [success |-> FALSE, details |-> "Message cannot be empty",
          message |-> <<>>, sessionId |-> NoSession]
    ELSE IF Len(b.message) > MAX_MESSAGE_LENGTH
    THEN [success |-> FALSE,
          details |-> "Message is too long (max 5000 characters)",
          message |-> <<>>, sessionId |-> NoSession]
    ELSE [success |-> TRUE, details |-> "", message |-> Trim(b.message),
          sessionId |-> b.sessionId]

\* res.status(400).json(...) of lines 127-130 and 139-142
BadRequest(details) ==
    [status |-> 400, reply |-> <<>>, sessionId |-> NoSession,
     error |-> "Invalid request", details |-> details]

\* res.status(500).json(...) of lines 276-279
ServerError ==
    [status |-> 500, reply |-> <<>>, sessionId |-> NoSession,
     error |-> "An error occurred processing your message",
     details |-> "Please try again shortly."]

\* res.json({ reply, sessionId }) of lines 264-267
OkResponse(aiReply, conversationId) ==
    [status |-> 200, reply |-> aiReply, sessionId |-> conversationId,
     error |-> "", details |-> ""]

\* 'GEMINI_API_KEY environment variable is required' (llm/index.ts line 14)
Msg_KeyRequired ==
    <<"G", "E", "M", "I", "N", "I", "_", "A", "P", "I", "_", "K", "E", "Y",
      " ", "e", "n", "v", "i", "r", "o", "n", "m", "e", "n", "t", " ", "v",
      "a", "r", "i", "a", "b", "l", "e", " ", "i", "s", " ", "r", "e", "q",
      "u", "i", "r", "e", "d">>

\* createLLMProvider: throws without the key, else a new GeminiProvider;
\* n is the number of instances made before.
createLLMProvider(key, n) ==
    IF ~key THEN [threw |-> TRUE, instance |-> NoProvider,
                  message |-> Msg_KeyRequired]
    ELSE [threw |-> FALSE, instance |-> n + 1, message |-> <<>>]

\* A getter that builds a provider on every call.
getLLMProvider_AlwaysCreates(current, key, n) == createLLMProvider(key, n)

\* getLLMProvider (lines 25-35): construct when the variable is null,
\* rethrow what createLLMProvider throws, else the instance held.
getLLMProvider(current, key, n) ==
    IF current = NoProvider THEN createLLMProvider(key, n)
    ELSE [threw |-> FALSE, instance |-> current, message |-> <<>>]

\* A catch clause that answers with the message of the error.
RouteCatchReply_ErrorMessage(errorMessage) == errorMessage

\* The catch clause of lines 232-236: the literal of line 235.
RouteCatchReply(errorMessage) ==
    <<"S", "o", "r", "r", "y", " ", EM_DASH, " ", "o", "u", "r", " ", "s",
      "u", "p", "p", "o", "r", "t", " ", "a", "g", "e", "n", "t", " ", "i",
      "s", " ", "h", "a", "v", "i", "n", "g", " ", "t", "r", "o", "u", "b",
      "l", "e", " ", "r", "i", "g", "h", "t", " ", "n", "o", "w", ".", " ",
      "P", "l", "e", "a", "s", "e", " ", "t", "r", "y", " ", "a", "g", "a",
      "i", "n", " ", "s", "h", "o", "r", "t", "l", "y", ".">>

\* A row of the message table.
Row(conversationId, sender, text) ==
    [conversationId |-> conversationId, sender |-> sender, text |-> text]

\* The rows of one conversation, in createdAt order.
RowsOf(rows, conversationId) ==
    LET Mine(r) == r.conversationId = conversationId
    IN  SelectSeq(rows, Mine)

\* findMany({ where, orderBy: { createdAt: 'asc' }, take: 20 }), lines
\* 202-206: the rows in ascending order, cut after the first 20.
findMany(rows, conversationId) ==
    SliceHead(RowsOf(rows, conversationId), HISTORY_LIMIT)

\* historyMessages.map(...) of lines 220-223
MapHistory(historyMessages) ==
    [i \in 1..Len(historyMessages) |->
        Turn(historyMessages[i].sender, historyMessages[i].text)]

\* getCachedMessages: null without Redis or without an entry.
getCachedMessages(conversationId) ==
    IF redisEnabled /\ conversationId \in DOMAIN cache
    THEN [hit |-> TRUE, list |-> cache[conversationId]]
    ELSE [hit |-> FALSE, list |-> <<>>]

\* Lines 217-224: the cached list when it is as long as the fetched one.
ChooseHistory(cachedHistory, historyMessages) ==
    IF cachedHistory.hit /\ Len(cachedHistory.list) = Len(historyMessages)
    THEN cachedHistory.list
    ELSE MapHistory(historyMessages)

\* Lines 255-259
UpdatedHistory(history, sanitizedMessage, aiReply) ==
    SliceTail(history \o <<Turn("user", sanitizedMessage),
                           Turn("ai", aiReply)>>, CACHE_LIMIT)

\* cacheMessages: nothing without Redis, else the last 20 under the key.
cacheMessages(conversationId, list) ==
    IF ~redisEnabled THEN cache
    ELSE [k \in DOMAIN cache \cup {conversationId} |->
            IF k = conversationId THEN SliceTail(list, CACHE_LIMIT)
            ELSE cache[k]]

\* cuid(): an id no conversation has.
NewConversationId == Cardinality(conversations) + 1

\* The number of GeminiProvider instances made so far.
InstancesMade(calls) ==
    Cardinality({i \in 1..Len(calls) : calls[i] = "constructed"})

\* A database operation ends well, or fails while faults are left.
DbMay(ok) == ok \/ faults < MaxDbFaults

DbCount(ok) == faults' = IF ok THEN faults ELSE faults + 1

\* `return res...json(...)`: the request is over.
Respond(c, r) ==
    /\ response' = [response EXCEPT ![c] = r]
    /\ rpc' = [rpc EXCEPT ![c] = "responded"]

\* The request arrives: lines 122-146 and the database call that follows
\* (findUnique of line 154 with a sessionId, else create of line 177).
Receive(c) ==
    /\ rpc[c] = "start"
    /\ LET validationResult == messageSchema(body[c])
           trimmedMessage == Trim(validationResult.message)
       IN  IF ~validationResult.success
           THEN /\ Respond(c, BadRequest(validationResult.details))
                /\ UNCHANGED loc
           ELSE IF Len(trimmedMessage) = 0
           THEN /\ Respond(c, BadRequest("Message cannot be empty"))
                /\ UNCHANGED loc
           ELSE /\ loc' = [loc EXCEPT
                     ![c].trimmedMessage = trimmedMessage,
                     ![c].sanitizedMessage = sanitizeInput(trimmedMessage)]
                /\ rpc' = [rpc EXCEPT ![c] =
                     IF validationResult.sessionId # NoSession
                     THEN "findUnique" ELSE "createConv"]
                /\ UNCHANGED response
    /\ UNCHANGED <<coreVars, sideVars, args, oracle, apiKey, redisEnabled,
                   llmProvider,
                   createCalls, conversations, messages, cache, faults, body>>

\* A handler that takes the sessionId of the request as it is when the
\* lookup succeeds, found or not.
FindUniqueReturns_TrustsSessionId(c, ok) ==
    /\ rpc[c] = "findUnique"
    /\ DbMay(ok)
    /\ DbCount(ok)
    /\ IF ok
       THEN /\ loc' = [loc EXCEPT ![c].conversationId =
                          messageSchema(body[c]).sessionId]
            /\ rpc' = [rpc EXCEPT ![c] = "saveUser"]
       ELSE /\ rpc' = [rpc EXCEPT ![c] = "createConv"]
            /\ UNCHANGED loc
    /\ UNCHANGED <<coreVars, sideVars, args, oracle, apiKey, redisEnabled,
                   llmProvider,
                   createCalls, conversations, messages, cache, body,
                   response>>

\* findUnique returns (lines 154-174): the conversation found is used;
\* without it, or when the query fails, a new one is created.
FindUniqueReturns(c, ok) ==
    /\ rpc[c] = "findUnique"
    /\ DbMay(ok)
    /\ DbCount(ok)
    /\ IF ok /\ messageSchema(body[c]).sessionId \in conversations
       THEN /\ loc' = [loc EXCEPT ![c].conversationId =
                          messageSchema(body[c]).sessionId]
            /\ rpc' = [rpc EXCEPT ![c] = "saveUser"]
       ELSE /\ rpc' = [rpc EXCEPT ![c] = "createConv"]
            /\ UNCHANGED loc
    /\ UNCHANGED <<coreVars, sideVars, args, oracle, apiKey, redisEnabled,
                   llmProvider,
                   createCalls, conversations, messages, cache, body,
                   response>>

\* conversation.create returns (lines 162, 170, 177); its failure is
\* caught by the outer catch of lines 268-280.
CreateConvReturns(c, ok) ==
    /\ rpc[c] = "createConv"
    /\ DbMay(ok)
    /\ DbCount(ok)
    /\ IF ok
       THEN /\ conversations' = conversations \cup {NewConversationId}
            /\ loc' = [loc EXCEPT ![c].conversationId = NewConversationId]
            /\ rpc' = [rpc EXCEPT ![c] = "saveUser"]
            /\ UNCHANGED response
       ELSE /\ Respond(c, ServerError)
            /\ UNCHANGED <<conversations, loc>>
    /\ UNCHANGED <<coreVars, sideVars, args, oracle, apiKey, redisEnabled,
                   llmProvider,
                   createCalls, messages, cache, body>>

\* A handler without the try of lines 184-197: the failure of the user
\* turn's message.create reaches the outer catch.
SaveUserReturns_Unguarded(c, ok) ==
    /\ rpc[c] = "saveUser"
    /\ DbMay(ok)
    /\ DbCount(ok)
    /\ IF ok
       THEN /\ messages' = Append(messages, Row(loc[c].conversationId,
                                  "user", loc[c].sanitizedMessage))
            /\ loc' = [loc EXCEPT ![c].saved = TRUE]
            /\ rpc' = [rpc EXCEPT ![c] = "findMany"]
            /\ UNCHANGED response
       ELSE /\ Respond(c, ServerError)
            /\ UNCHANGED <<messages, loc>>
    /\ UNCHANGED <<coreVars, sideVars, args, oracle, apiKey, redisEnabled,
                   llmProvider,
                   createCalls, conversations, cache, body>>

\* message.create of the user turn returns (lines 184-197); a failure is
\* logged and the request goes on.
SaveUserReturns(c, ok) ==
    /\ rpc[c] = "saveUser"
    /\ DbMay(ok)
    /\ DbCount(ok)
    /\ messages' =
          IF ok THEN Append(messages, Row(loc[c].conversationId, "user",
                                          loc[c].sanitizedMessage))
          ELSE messages
    /\ loc' = [loc EXCEPT ![c].saved = ok]
    /\ rpc' = [rpc EXCEPT ![c] = "findMany"]
    /\ UNCHANGED <<coreVars, sideVars, args, oracle, apiKey, redisEnabled,
                   llmProvider,
                   createCalls, conversations, cache, body, response>>

\* message.findMany returns (lines 200-211); a failure gives no history.
FindManyReturns(c, ok) ==
    /\ rpc[c] = "findMany"
    /\ DbMay(ok)
    /\ DbCount(ok)
    /\ loc' = [loc EXCEPT
          ![c].fetched = ok,
          ![c].historyMessages =
              IF ok THEN findMany(messages, loc[c].conversationId)
              ELSE <<>>]
    /\ rpc' = [rpc EXCEPT ![c] = "getCached"]
    /\ UNCHANGED <<coreVars, sideVars, args, oracle, apiKey, redisEnabled,
                   llmProvider,
                   createCalls, conversations, messages, cache, body,
                   response>>

\* getCachedMessages returns: the history is chosen (lines 214-224), the
\* provider is fetched and the arguments of generateReply are ready (lines
\* 229-231), or getLLMProvider throws and the catch clause sets the reply
\* (lines 232-236) and the AI turn is sent to the store (line 240).
GetCachedReturns(c) ==
    /\ rpc[c] = "getCached"
    /\ LET cachedHistory == getCachedMessages(loc[c].conversationId)
           history == ChooseHistory(cachedHistory, loc[c].historyMessages)
           got == getLLMProvider(llmProvider, apiKey,
                                 InstancesMade(createCalls))
       IN  /\ llmProvider' = IF got.threw THEN llmProvider ELSE got.instance
           /\ createCalls' =
                 IF got.threw THEN Append(createCalls, "threw")
                 ELSE IF got.instance # llmProvider
                 THEN Append(createCalls, "constructed")
                 ELSE createCalls
           /\ IF got.threw
              THEN /\ loc' = [loc EXCEPT
                         ![c].history = history,
                         ![c].providerThrew = TRUE,
                         ![c].aiReply = RouteCatchReply(got.message)]
                   /\ rpc' = [rpc EXCEPT ![c] = "saveAi"]
                   /\ UNCHANGED args
              ELSE /\ loc' = [loc EXCEPT
                         ![c].history = history,
                         ![c].provider = got.instance]
                   /\ args' = [args EXCEPT ![c] =
                         [history |-> history,
                          userMessage |-> loc[c].trimmedMessage]]
                   /\ rpc' = [rpc EXCEPT ![c] = "calling"]
    /\ UNCHANGED <<coreVars, sideVars, oracle, apiKey, redisEnabled, conversations,
                   messages, cache, faults, body, response>>

\* provider.generateReply(history, trimmedMessage) is entered (line 231).
RouteInvoke(c) ==
    /\ rpc[c] = "calling"
    /\ Invoke(c)

\* generateReply has returned: aiReply is set (line 231) and the AI turn
\* is sent to the store (line 240).
ReplyReturns(c) ==
    /\ rpc[c] = "calling"
    /\ pc[c] = "done"
    /\ loc' = [loc EXCEPT ![c].aiReply = result[c]]
    /\ rpc' = [rpc EXCEPT ![c] = "saveAi"]
    /\ UNCHANGED <<coreVars, sideVars, args, oracle, apiKey, redisEnabled,
                   llmProvider,
                   createCalls, conversations, messages, cache, faults, body,
                   response>>

\* A SaveAiReturns that stores the text the backend sent, as it came.
SaveAiReturns_StoresRawText(c, ok) ==
    /\ rpc[c] = "saveAi"
    /\ DbMay(ok)
    /\ DbCount(ok)
    /\ messages' =
          IF ok THEN Append(messages, Row(loc[c].conversationId, "ai",
                                          rawText[c]))
          ELSE messages
    /\ rpc' = [rpc EXCEPT ![c] = "cacheWrite"]
    /\ UNCHANGED <<coreVars, sideVars, args, oracle, apiKey, redisEnabled,
                   llmProvider,
                   createCalls, conversations, cache, body, loc, response>>

\* message.create of the AI turn returns (lines 239-252); then the cache
\* update is started (lines 255-261).
SaveAiReturns(c, ok) ==
    /\ rpc[c] = "saveAi"
    /\ DbMay(ok)
    /\ DbCount(ok)
    /\ messages' =
          IF ok THEN Append(messages, Row(loc[c].conversationId, "ai",
                                          loc[c].aiReply))
          ELSE messages
    /\ rpc' = [rpc EXCEPT ![c] = "cacheWrite"]
    /\ UNCHANGED <<coreVars, sideVars, args, oracle, apiKey, redisEnabled,
                   llmProvider,
                   createCalls, conversations, cache, body, loc, response>>

\* cacheMessages returns and the response is sent (lines 261-267).
CacheWriteReturns(c) ==
    /\ rpc[c] = "cacheWrite"
    /\ cache' = cacheMessages(loc[c].conversationId,
                    UpdatedHistory(loc[c].history, loc[c].sanitizedMessage,
                                   loc[c].aiReply))
    /\ Respond(c, OkResponse(loc[c].aiReply, loc[c].conversationId))
    /\ UNCHANGED <<coreVars, sideVars, args, oracle, apiKey, redisEnabled,
                   llmProvider,
                   createCalls, conversations, messages, faults, body, loc>>

\* The stored conversation: n rows, user and AI turns in turn, whose texts
\* are "#01", "#02", ...
Digit(k) == <<"0", "1", "2", "3", "4", "5", "6", "7", "8", "9">>[k + 1]

StoredText(i) == <<"#", Digit(i \div 10), Digit(i % 10)>>

StoredRows(n) ==
    [i \in 1..n |->
        Row(FirstConversation, IF i % 2 = 1 THEN "user" ELSE "ai",
            StoredText(i))]

StoredSizes ==
    {0, HISTORY_LIMIT - 2}
        \cup { HISTORY_LIMIT + 2 * k : k \in 0..MaxStoredPairs }

\* " Is it free? ", sent with blanks around it.
Msg_IsItFree ==
    <<" ", "I", "s", " ", "i", "t", " ", "f", "r", "e", "e", "?", " ">>

Msg_Blank == <<" ", " ">>

Body(message, sessionId) ==
    [present |-> TRUE, message |-> message, sessionId |-> sessionId]

\* A body without the field `message`.
BodyWithoutMessage(sessionId) ==
    [present |-> FALSE, message |-> <<>>, sessionId |-> sessionId]

\* The first request: a question in the stored conversation or without a
\* session, or a message that is missing, empty, blank or one character
\* too long.
FirstBodies ==
    { Body(Msg_ReturnPolicy, FirstConversation),
      Body(Msg_ReturnPolicy, NoSession),
      Body(Msg_Blank, FirstConversation),
      Body(<<>>, FirstConversation),
      BodyWithoutMessage(FirstConversation),
      Body(Fill(MAX_MESSAGE_LENGTH + 1), NoSession) }

\* The second request continues the stored conversation.
SecondBody == Body(Msg_IsItFree, FirstConversation)

NoArgs == [history |-> <<>>, userMessage |-> <<>>]

\* A process that has served nothing yet: no provider, a store with one
\* conversation, an empty cache, and two requests to come.
RouteInitWith(key, redis, n, b1, b2, f) ==
    /\ InitWith([c \in Calls |-> NoArgs])
    /\ oracle = NoOracle
    /\ NoSide
    /\ apiKey = key
    /\ redisEnabled = redis
    /\ llmProvider = NoProvider
    /\ createCalls = <<>>
    /\ conversations = {FirstConversation}
    /\ messages = StoredRows(n)
    /\ cache = NoCache
    /\ faults = f
    /\ rpc = [c \in Calls |-> "start"]
    /\ body = [c \in Calls |-> IF c = "r1" THEN b1 ELSE b2]
    /\ loc = [c \in Calls |-> NoLocals]
    /\ response = [c \in Calls |-> NoResponse]

RouteInit ==
    \E key \in BOOLEAN, redis \in BOOLEAN, n \in StoredSizes,
       b1 \in FirstBodies :
        RouteInitWith(key, redis, n, b1, SecondBody, 0)

\* The requests come one after the other.
InOrder(c) == c = "r1" \/ rpc["r1"] = "responded"

\* What the backend does in the route specifications: it settles every
\* attempt before the timer of the attempt, with a text, a blank, a
\* rejected credential or an overload.
RouteTexts == { <<>>, Txt_Returns }
RouteThrown ==
    { Thrown(TRUE, Msg_401, "auth"), Thrown(TRUE, Msg_503, "transient") }

\* Two requests served one after the other, with a store that may fail.
RouteNext ==
    \/ \E c \in Calls : InOrder(c) /\ Receive(c)
    \/ \E c \in Calls, ok \in BOOLEAN : FindUniqueReturns(c, ok)
    \/ \E c \in Calls, ok \in BOOLEAN : CreateConvReturns(c, ok)
    \/ \E c \in Calls, ok \in BOOLEAN : SaveUserReturns(c, ok)
    \/ \E c \in Calls, ok \in BOOLEAN : FindManyReturns(c, ok)
    \/ \E c \in Calls : GetCachedReturns(c)
    \/ \E c \in Calls : RouteInvoke(c)
    \/ \E c \in Calls, text \in RouteTexts : BackendResolves(c, text)
    \/ \E c \in Calls, thrown \in RouteThrown : BackendRejects(c, thrown)
    \/ \E c \in Calls : SleepDone(c)
    \/ \E c \in Calls : ReplyReturns(c)
    \/ \E c \in Calls, ok \in BOOLEAN : SaveAiReturns(c, ok)
    \/ \E c \in Calls : CacheWriteReturns(c)

RouteSpec == RouteInit /\ [][RouteNext]_vars

\* Two requests that may overlap, one in the stored conversation and one
\* without a session, with a store that does not fail.
RouteConcInit ==
    \E key \in BOOLEAN :
        RouteInitWith(key, FALSE, 0, Body(Msg_ReturnPolicy, FirstConversation),
                      Body(Msg_IsItFree, NoSession), MaxDbFaults)

RouteConcNext ==
    \/ \E c \in Calls : Receive(c)
    \/ \E c \in Calls : FindUniqueReturns(c, TRUE)
    \/ \E c \in Calls : CreateConvReturns(c, TRUE)
    \/ \E c \in Calls : SaveUserReturns(c, TRUE)
    \/ \E c \in Calls : FindManyReturns(c, TRUE)
    \/ \E c \in Calls : GetCachedReturns(c)
    \/ \E c \in Calls : RouteInvoke(c)
    \/ \E c \in Calls : BackendResolves(c, Txt_Returns)
    \/ \E c \in Calls, thrown \in RouteThrown : BackendRejects(c, thrown)
    \/ \E c \in Calls : SleepDone(c)
    \/ \E c \in Calls : ReplyReturns(c)
    \/ \E c \in Calls : SaveAiReturns(c, TRUE)
    \/ \E c \in Calls : CacheWriteReturns(c)

RouteConcSpec == RouteConcInit /\ [][RouteConcNext]_vars

\* ' <a href="x">Tom & 'Jerry'</a> ': the six characters sanitizeInput
\* replaces, with blanks around.
Msg_Markup ==
    <<" ", "<", "a", " ", "h", "r", "e", "f", "=", "\"", "x", "\"", ">",
      "T", "o", "m", " ", "&", " ", "'", "J", "e", "r", "r", "y", "'", "<",
      "/", "a", ">", " ">>

\* '&amp;/': a message that holds an entity already.
Msg_Entity ==
    <<"&", "a", "m", "p", ";", "/">>

\* Two requests whose messages hold the characters sanitizeInput escapes,
\* the first opening a conversation and the second continuing one.
EscapeInit ==
    \E redis \in BOOLEAN :
        RouteInitWith(TRUE, redis, 0, Body(Msg_Markup, NoSession),
                      Body(Msg_Entity, FirstConversation), 0)

EscapeSpec == EscapeInit /\ [][RouteNext]_vars

\* A sessionId that names no conversation.
UnknownConversation == 9

SessionIds == {NoSession, FirstConversation, UnknownConversation}

\* Two requests, each without a sessionId, with the id of the stored
\* conversation or with an id the store does not know.
SessionInit ==
    \E s1 \in SessionIds, s2 \in SessionIds :
        RouteInitWith(TRUE, FALSE, 0, Body(Msg_ReturnPolicy, s1),
                      Body(Msg_IsItFree, s2), 0)

SessionSpec == SessionInit /\ [][RouteNext]_vars

\* The database calls of one request: findUnique, create, and the three
\* of the message table.
DbCallsOfARequest == 5

\* A request against a database that may fail at every call of the
\* request: the count of failures starts below zero by that many.  The
\* request after it has no message.
DegradeInit ==
    \E key \in BOOLEAN, redis \in BOOLEAN,
       sessionId \in {NoSession, FirstConversation} :
        RouteInitWith(key, redis, 0, Body(Msg_ReturnPolicy, sessionId),
                      BodyWithoutMessage(NoSession),
                      MaxDbFaults - DbCallsOfARequest)

\* What request c does once its conversation id is known: each of its
\* awaits returns, each race of generateReply settles, each sleep ends.
GoesOn(c) ==
    \/ \E ok \in BOOLEAN : SaveUserReturns(c, ok)
    \/ \E ok \in BOOLEAN : FindManyReturns(c, ok)
    \/ GetCachedReturns(c)
    \/ RouteInvoke(c)
    \/ \E text \in RouteTexts : BackendResolves(c, text)
    \/ \E thrown \in RouteThrown : BackendRejects(c, thrown)
    \/ SleepDone(c)
    \/ ReplyReturns(c)
    \/ \E ok \in BOOLEAN : SaveAiReturns(c, ok)
    \/ CacheWriteReturns(c)

\* No await of the handler lasts for ever.
DegradeSpec ==
    /\ DegradeInit
    /\ [][RouteNext]_vars
    /\ \A c \in Calls : WF_vars(GoesOn(c))

-----------------------------------------------------------------------------
(* Rate limiting: middleware/rateLimit.ts as mounted by index.ts *)

\* max: 20 and max: 100 (rateLimit.ts lines 6 and 18)
CHAT_MAX == 20
API_MAX == 100

\* The unit of time is half a minute.
TicksPerMinute == 2

\* windowMs: 60 * 1000 and 15 * 60 * 1000 (lines 5 and 17)
CHAT_WINDOW == 1 * TicksPerMinute
API_WINDOW == 15 * TicksPerMinute

\* The client is watched for this many half minutes.
MaxTicks == 11

\* The chat messages the client sends in one half minute: none, half the
\* chat limit, or one more than the whole limit.
Quotas == {0, CHAT_MAX \div 2, CHAT_MAX + 1}

\* One request counted by a limiter of express-rate-limit: the first hit
\* of the key, or the first after resetTime, opens a window of windowMs;
\* every hit inside the window adds one.
Hit(limit, window) ==
    IF limit.hits = 0 \/ now >= limit.resetTime
    THEN [hits |-> 1, resetTime |-> now + window]
    ELSE [limit EXCEPT !.hits = @ + 1]

\* A limiter that refuses the request that reaches max.
Exceeds_AtLimit(hits, max) == hits >= max

\* The request is refused with 429 when the hits of the window exceed max.
Exceeds(hits, max) == hits > max

\* POST /chat/message arrives: app.use(apiRateLimiter) of index.ts line 64
\* counts it first, then chatRateLimiter of the route (chat.ts line 121);
\* a request that both let through reaches the handler.
ChatArrives ==
    /\ traffic.cur < traffic.quota
    /\ LET api == Hit(apiLimit, API_WINDOW)
           chat == Hit(chatLimit, CHAT_WINDOW)
           byApi == Exceeds(api.hits, API_MAX)
           byChat == ~byApi /\ Exceeds(chat.hits, CHAT_MAX)
       IN  /\ apiLimit' = api
           /\ chatLimit' = IF byApi THEN chatLimit ELSE chat
           /\ traffic' = [traffic EXCEPT
                 !.cur = @ + 1,
                 !.total = @ + 1,
                 !.everOver = @ \/ (traffic.prev + traffic.cur + 1 > 20),
                 !.last = IF byApi \/ byChat THEN "limited" ELSE "passed",
                 !.limited = @ \/ byApi \/ byChat]
    /\ UNCHANGED <<coreVars, args, oracle, routeVars, now, reactions,
                   apiResponse>>

\* GET /health arrives (index.ts lines 23-61): the route is mounted before
\* the limiters; it answers 200, or 503 when the database is down.
HealthArrives(dbOk) ==
    /\ traffic' = [traffic EXCEPT !.health = IF dbOk THEN 200 ELSE 503]
    /\ UNCHANGED <<coreVars, args, oracle, routeVars, now, chatLimit,
                   apiLimit, reactions, apiResponse>>

\* Half a minute passes once the client has sent what it meant to send.
Tick(q) ==
    /\ now < MaxTicks
    /\ traffic.cur = traffic.quota
    /\ now' = now + 1
    /\ traffic' = [traffic EXCEPT !.quota = q, !.prev = traffic.cur,
                                  !.cur = 0]
    /\ UNCHANGED <<coreVars, args, oracle, routeVars, chatLimit, apiLimit,
                   reactions, apiResponse>>

\* One client IP and a process whose limiters have counted nothing.
RateInit ==
    \E q \in Quotas :
        /\ InitWith([c \in Calls |-> ExampleArgs])
        /\ oracle = NoOracle
        /\ NoRequests
        /\ now = 0
        /\ chatLimit = NoHits
        /\ apiLimit = NoHits
        /\ traffic = [NoTraffic EXCEPT !.quota = q]
        /\ reactions = << >>
        /\ apiResponse = NoApiResponse

RateNext ==
    \/ ChatArrives
    \/ \E dbOk \in BOOLEAN : HealthArrives(dbOk)
    \/ \E q \in Quotas : Tick(q)

RateSpec == RateInit /\ [][RateNext]_vars

-----------------------------------------------------------------------------
(* The other routes: GET /chat/history/:sessionId, POST                    *)
(* /chat/message/:messageId/reaction (chat.ts) and the error middleware of *)
(* index.ts.  A handler of these routes has one awaited call, so it is one *)
(* step; the id of a message is its position in the message table.         *)

\* take: 100 of the history route (chat.ts line 53)
HISTORY_PAGE == 100

\* The rows in the store when the reactions arrive, at most.
MaxReactRows == 2

\* 'Invalid request' (chat.ts lines 44 and 85)
Txt_InvalidRequest ==
    <<"I", "n", "v", "a", "l", "i", "d", " ", "r", "e", "q", "u", "e", "s",
      "t">>

\* 'sessionId is required' (chat.ts line 45)
Txt_SessionIdRequired ==
    <<"s", "e", "s", "s", "i", "o", "n", "I", "d", " ", "i", "s", " ", "r",
      "e", "q", "u", "i", "r", "e", "d">>

\* The details of chat.ts line 86
Txt_ReactionMustBe ==
    <<"r", "e", "a", "c", "t", "i", "o", "n", " ", "m", "u", "s", "t", " ",
      "b", "e", " ", "\"", "t", "h", "u", "m", "b", "s", "_", "u", "p",
      "\"", ",", " ", "\"", "t", "h", "u", "m", "b", "s", "_", "d", "o",
      "w", "n", "\"", ",", " ", "o", "r", " ", "n", "u", "l", "l">>

\* 'Message not found' (chat.ts line 108)
Txt_MessageNotFound ==
    <<"M", "e", "s", "s", "a", "g", "e", " ", "n", "o", "t", " ", "f", "o",
      "u", "n", "d">>

\* 'The message does not exist.' (chat.ts line 109)
Txt_DoesNotExist ==
    <<"T", "h", "e", " ", "m", "e", "s", "s", "a", "g", "e", " ", "d", "o",
      "e", "s", " ", "n", "o", "t", " ", "e", "x", "i", "s", "t", ".">>

\* The error of chat.ts line 70
Txt_HistoryError ==
    <<"A", "n", " ", "e", "r", "r", "o", "r", " ", "o", "c", "c", "u", "r",
      "r", "e", "d", " ", "f", "e", "t", "c", "h", "i", "n", "g", " ", "c",
      "o", "n", "v", "e", "r", "s", "a", "t", "i", "o", "n", " ", "h", "i",
      "s", "t", "o", "r", "y">>

\* The error of chat.ts line 114
Txt_ReactionError ==
    <<"A", "n", " ", "e", "r", "r", "o", "r", " ", "o", "c", "c", "u", "r",
      "r", "e", "d", " ", "u", "p", "d", "a", "t", "i", "n", "g", " ", "t",
      "h", "e", " ", "r", "e", "a", "c", "t", "i", "o", "n">>

\* The error of chat.ts line 277
Txt_MessageError ==
    <<"A", "n", " ", "e", "r", "r", "o", "r", " ", "o", "c", "c", "u", "r",
      "r", "e", "d", " ", "p", "r", "o", "c", "e", "s", "s", "i", "n", "g",
      " ", "y", "o", "u", "r", " ", "m", "e", "s", "s", "a", "g", "e">>

\* 'Internal server error' (index.ts line 77)
Txt_InternalServerError ==
    <<"I", "n", "t", "e", "r", "n", "a", "l", " ", "s", "e", "r", "v", "e",
      "r", " ", "e", "r", "r", "o", "r">>

\* 'Please try again shortly.' (chat.ts 71, 115, 278; index.ts 78)
Txt_TryAgain ==
    <<"P", "l", "e", "a", "s", "e", " ", "t", "r", "y", " ", "a", "g", "a",
      "i", "n", " ", "s", "h", "o", "r", "t", "l", "y", ".">>

\* The text the catch clause looks for (chat.ts line 106)
Txt_RecordMissing ==
    <<"R", "e", "c", "o", "r", "d", " ", "t", "o", " ", "u", "p", "d", "a",
      "t", "e", " ", "d", "o", "e", "s", " ", "n", "o", "t", " ", "e", "x",
      "i", "s", "t">>

\* An error of the update whose message holds that text.
Err_RecordMissing ==
    <<"A", "n", " ", "o", "p", "e", "r", "a", "t", "i", "o", "n", " ", "f",
      "a", "i", "l", "e", "d", ":", " ", "R", "e", "c", "o", "r", "d", " ",
      "t", "o", " ", "u", "p", "d", "a", "t", "e", " ", "d", "o", "e", "s",
      " ", "n", "o", "t", " ", "e", "x", "i", "s", "t", ".">>

\* An error of a database that cannot be reached.
Err_Unreachable ==
    <<"C", "a", "n", "'", "t", " ", "r", "e", "a", "c", "h", " ", "d", "a",
      "t", "a", "b", "a", "s", "e", " ", "s", "e", "r", "v", "e", "r", " ",
      "a", "t", " ", "d", "b", ":", "5", "4", "3", "2">>

\* An error message with a stack trace in it.
Err_Stack ==
    <<"T", "y", "p", "e", "E", "r", "r", "o", "r", ":", " ", "x", " ", "i",
      "s", " ", "u", "n", "d", "e", "f", "i", "n", "e", "d", "\n", " ", " ",
      " ", " ", "a", "t", " ", "/", "a", "p", "p", "/", "d", "i", "s", "t",
      "/", "r", "o", "u", "t", "e", "s", "/", "c", "h", "a", "t", ".", "j",
      "s", ":", "8", "8", ":", "1", "7">>
\* What a request can carry as reaction: the three accepted values (null
\* written "null"), another string, and no reaction at all.
Reactions == {"thumbs_up", "thumbs_down", "null", "heart", "undefined"}

\* The errors a database call can throw besides the missing record; <<>>
\* stands for a call that does not fail on its own.
DbErrors == {Err_Unreachable, Err_Stack}

NoError == <<>>

\* The test of chat.ts line 83, negated.
ValidReaction(reaction) ==
    ~(reaction # "thumbs_up" /\ reaction # "thumbs_down" /\ reaction # "null")

\* res.status(...).json({ error, details, message })
ApiBody(status, error, details, message) ==
    [status |-> status, error |-> error, details |-> details,
     message |-> message]

\* res.json(...) of a request that was served.
ApiOk == ApiBody(200, <<>>, <<>>, <<>>)

\* chat.ts lines 42-47
HistoryInvalid == ApiBody(400, Txt_InvalidRequest, Txt_SessionIdRequired, <<>>)

\* The catch clause of the history route, chat.ts lines 65-73.
HistoryCatch(errorMessage) == ApiBody(500, Txt_HistoryError, <<>>, Txt_TryAgain)

\* chat.ts lines 83-88
ReactionInvalid == ApiBody(400, Txt_InvalidRequest, Txt_ReactionMustBe, <<>>)

\* A catch clause that sends the message of the error it caught.
ReactionCatch_SendsErrorMessage(errorMessage) ==
    IF Includes(errorMessage, Txt_RecordMissing)
    THEN ApiBody(404, Txt_MessageNotFound, <<>>, Txt_DoesNotExist)
    ELSE ApiBody(500, Txt_ReactionError, <<>>, errorMessage)

\* The catch clause of the reaction route, chat.ts lines 101-117.
ReactionCatch(errorMessage) ==
    IF Includes(errorMessage, Txt_RecordMissing)
    THEN ApiBody(404, Txt_MessageNotFound, <<>>, Txt_DoesNotExist)
    ELSE ApiBody(500, Txt_ReactionError, <<>>, Txt_TryAgain)

\* The catch clause of the message route, chat.ts lines 268-280.
MessageCatch(errorMessage) == ApiBody(500, Txt_MessageError, <<>>, Txt_TryAgain)

\* The error middleware, index.ts lines 70-80.
UnhandledCatch(errorMessage) ==
    ApiBody(500, Txt_InternalServerError, <<>>, Txt_TryAgain)

\* prisma.message.update({ where: { id }, data: { reaction } }): it throws
\* what the database throws, or the missing record; otherwise it writes
\* the reaction on the row with that id, whoever sent it.
UpdateError(messageId, thrown) ==
    IF thrown # NoError THEN thrown
    ELSE IF messageId \notin 1..Len(messages) THEN Err_RecordMissing
    ELSE NoError

\* The reaction of a row; a row never reacted to has null.
ReactionOf(i) == IF i \in DOMAIN reactions THEN reactions[i] ELSE "null"

\* findMany({ where, orderBy: { createdAt: 'asc' }, take: 100 }) and the
\* map of chat.ts lines 50-63.
HistoryRows(sessionId) ==
    LET tagged == [i \in 1..Len(messages) |->
                      [id |-> i, conversationId |-> messages[i].conversationId,
                       sender |-> messages[i].sender,
                       text |-> messages[i].text,
                       reaction |-> ReactionOf(i)]]
    IN  SliceHead(RowsOf(tagged, sessionId), HISTORY_PAGE)

\* What the client got, with what the handler was given and what it caught.
Answered(route, point, b, thrown, target, reaction, rows) ==
    [route |-> route, point |-> point, status |-> b.status,
     error |-> b.error, details |-> b.details, message |-> b.message,
     thrown |-> thrown, target |-> target, reaction |-> reaction,
     rows |-> rows]

\* What the handlers of these routes leave alone.
apiFrame ==
    <<coreVars, args, oracle, routeVars, now, chatLimit, apiLimit, traffic>>

\* POST /chat/message/:messageId/reaction, chat.ts lines 77-118.
ReactionArrives(messageId, reaction, thrown) ==
    /\ LET error == UpdateError(messageId, thrown)
       IN  IF ~ValidReaction(reaction)
           THEN /\ apiResponse' = Answered("reaction", "validate",
                      ReactionInvalid, NoError, messageId, reaction, <<>>)
                /\ UNCHANGED reactions
           ELSE IF error # NoError
           THEN /\ apiResponse' = Answered("reaction", "update",
                      ReactionCatch(error), error, messageId, reaction, <<>>)
                /\ UNCHANGED reactions
           ELSE /\ reactions' = (messageId :> reaction) @@ reactions
                /\ apiResponse' = Answered("reaction", "done", ApiOk,
                      NoError, messageId, reaction, <<>>)
    /\ UNCHANGED apiFrame

\* GET /chat/history/:sessionId, chat.ts lines 38-74; a blank sessionId is
\* NoSession.
HistoryArrives(sessionId, thrown) ==
    /\ apiResponse' =
         IF sessionId = NoSession
         THEN Answered("history", "validate", HistoryInvalid, NoError,
                       sessionId, "undefined", <<>>)
         ELSE IF thrown # NoError
         THEN Answered("history", "findMany", HistoryCatch(thrown), thrown,
                       sessionId, "undefined", <<>>)
         ELSE Answered("history", "done", ApiOk, NoError, sessionId,
                       "undefined", HistoryRows(sessionId))
    /\ UNCHANGED <<apiFrame, reactions>>

\* POST /chat/message whose first database call throws: the handler has
\* written nothing and answers from its catch clause.
MessageThrows(thrown) ==
    /\ apiResponse' = Answered("message", "findUnique", MessageCatch(thrown),
                               thrown, NoSession, "undefined", <<>>)
    /\ UNCHANGED <<apiFrame, reactions>>

\* A request that fails outside the handlers, such as a body express.json()
\* cannot parse: the error middleware answers.
Unhandled(thrown) ==
    /\ apiResponse' = Answered("any", "middleware", UnhandledCatch(thrown),
                               thrown, NoSession, "undefined", <<>>)
    /\ UNCHANGED <<apiFrame, reactions>>

\* A store of at most MaxReactRows rows, user and AI turns in turn.
ApiInit ==
    \E n \in 0..MaxReactRows :
        RouteInitWith(TRUE, FALSE, n, NoBody, NoBody, 0)

ApiNext ==
    \/ \E messageId \in 1..(MaxReactRows + 1), reaction \in Reactions,
          thrown \in {NoError} \cup DbErrors :
            ReactionArrives(messageId, reaction, thrown)
    \/ \E sessionId \in {NoSession, FirstConversation},
          thrown \in {NoError} \cup DbErrors :
            HistoryArrives(sessionId, thrown)
    \/ \E thrown \in DbErrors : MessageThrows(thrown)
    \/ \E thrown \in DbErrors : Unhandled(thrown)

ApiSpec == ApiInit /\ [][ApiNext]_vars

-----------------------------------------------------------------------------
\* The rows the stored conversation has beyond one page of history, at
\* most.
MaxExtraRows == 2

\* A conversation of n rows, user and AI turns in turn, whose texts are
\* "#001", "#002", ...
LongRows(n) ==
    [i \in 1..n |->
        Row(FirstConversation, IF i % 2 = 1 THEN "user" ELSE "ai",
            <<"#", Digit(i \div 100), Digit((i \div 10) % 10),
              Digit(i % 10)>>)]

\* A conversation shorter than a page, of one page, or longer.
HistoryInit ==
    \E n \in {2, HISTORY_PAGE, HISTORY_PAGE + MaxExtraRows} :
        /\ InitWith([c \in Calls |-> NoArgs])
        /\ oracle = NoOracle
        /\ NoSide
        /\ apiKey = TRUE
        /\ redisEnabled = FALSE
        /\ llmProvider = NoProvider
        /\ createCalls = <<>>
        /\ conversations = {FirstConversation}
        /\ messages = LongRows(n)
        /\ cache = NoCache
        /\ faults = 0
        /\ rpc = [c \in Calls |-> "start"]
        /\ body = [c \in Calls |-> NoBody]
        /\ loc = [c \in Calls |-> NoLocals]
        /\ response = [c \in Calls |-> NoResponse]

HistorySpec == HistoryInit /\ [][ApiNext]_vars

-----------------------------------------------------------------------------
(* Fairness and types *)

\* Every race settles (the backend answers or the 30 s timer fires) and
\* every sleep ends: setTimeout callbacks always run.
FairSpec ==
    /\ Spec
    /\ \A c \in Calls : WF_vars(RaceSettles(c)) /\ WF_vars(SleepDone(c))

TypeOK ==
    /\ pc \in [Calls -> {"idle", "racing", "sleeping", "done"}]
    /\ attempt \in [Calls -> 0..(MAX_RETRIES + 1)]
    /\ backendCalls \in [Calls -> 0..(MAX_RETRIES + 1)]
    /\ \A c \in Calls : inflight[c] \subseteq 0..MAX_RETRIES
    /\ \A c \in Calls : timers[c] \subseteq 0..MAX_RETRIES

-----------------------------------------------------------------------------
(* Properties *)

Done(c) == pc[c] = "done"

AllRetryable(l) == \A i \in 1..Len(l) : l[i].class = "retryable"

OnlyWhiteSpace(s) == \A k \in 1..Len(s) : s[k] \in WhiteSpace

\* C1: whatever the backend did on each attempt, generateReply ends by
\* returning a string that is non-empty and at most 2000 characters long;
\* no settled race leaves the call anywhere but in the loop or returned.
C1_ReplyNonEmptyAndCapped ==
    \A c \in Calls :
        /\ pc[c] \in {"idle", "racing", "sleeping", "done"}
        /\ Done(c) => Len(result[c]) >= 1 /\ Len(result[c]) <= 2000

\* A backend text longer than the cap was returned cut to the cap.
C1_Witness ==
    \E c \in Calls :
        /\ Done(c)
        /\ Last(log[c]).class = "reply"
        /\ Len(rawText[c]) > 2000
        /\ Len(result[c]) = 2000

\* C2: under FairSpec every invoked call eventually reaches done, it never
\* makes more than MAX_RETRIES backend calls, and once it is done it starts
\* no further backend call and no further sleep.
C2_TerminatesWithinMaxRetries ==
    /\ \A c \in Calls : (pc[c] # "idle") ~> Done(c)
    /\ [](\A c \in Calls : backendCalls[c] <= 3)
    /\ [][\A c \in Calls :
            Done(c) => /\ pc'[c] = "done"
                       /\ backendCalls'[c] = backendCalls[c]
                       /\ sleeps'[c] = sleeps[c]
                       /\ result'[c] = result[c]]_vars

\* A call that used all three attempts and is done.
C2_Witness ==
    \E c \in Calls : Done(c) /\ backendCalls[c] = 3

\* C3: a call whose every attempt failed with a retryable error made
\* exactly 3 backend calls, slept 1000 ms then 2000 ms, and returned the
\* fallback string.
C3_ExhaustedRetries ==
    \A c \in Calls :
        (Done(c) /\ AllRetryable(log[c])) =>
            /\ backendCalls[c] = 3
            /\ Len(log[c]) = 3
            /\ sleeps[c] = <<1000, 2000>>
            /\ result[c] = getFallbackMessage

\* Three retryable failures, a backend rejection among them.
C3_Witness ==
    \E c \in Calls :
        /\ Done(c)
        /\ AllRetryable(log[c])
        /\ \E i \in 1..Len(log[c]) : log[c][i].src = "rejected"

\* C4: an attempt whose failure is classified non-retryable is the last
\* one: the call is done, returned the fallback, and made no backend call
\* and no sleep after it (on the first attempt: exactly one backend call).
C4_NonRetryableAbandons ==
    \A c \in Calls : \A i \in 1..Len(log[c]) :
        log[c][i].class = "nonretryable" =>
            /\ i = Len(log[c])
            /\ Done(c)
            /\ result[c] = getFallbackMessage
            /\ backendCalls[c] = i
            /\ Len(sleeps[c]) = i - 1

\* A non-retryable failure on the second attempt, attempts remaining.
C4_Witness ==
    \E c \in Calls :
        /\ Len(log[c]) = 2
        /\ log[c][2].class = "nonretryable"
        /\ log[c][2].src = "rejected"

\* C5: a first attempt that succeeds with a text X that is not blank
\* returns X trimmed then cut to its first 2000 characters, after exactly
\* one backend call and no sleep.
C5_FirstAttemptSuccess ==
    \A c \in Calls :
        (/\ Len(log[c]) = 1
         /\ log[c][1].src = "resolved"
         /\ ~OnlyWhiteSpace(rawText[c])) =>
            /\ Done(c)
            /\ result[c] = SliceHead(Trim(rawText[c]), 2000)
            /\ backendCalls[c] = 1
            /\ sleeps[c] = <<>>

\* A first-attempt success whose text had to be trimmed and cut.
C5_Witness ==
    \E c \in Calls :
        /\ Len(log[c]) = 1
        /\ log[c][1].src = "resolved"
        /\ Len(rawText[c]) > 2000
        /\ rawText[c][1] = " "
        /\ result[c] # rawText[c]

\* C6: when k timed-out or otherwise retryable attempts are followed by a
\* success with non-blank text, the result is that text trimmed and capped,
\* with k sleeps and k + 1 backend calls; and an attempt ended by its timer
\* is always classified retryable.
C6_SuccessAfterRetries ==
    \A c \in Calls :
        /\ \A i \in 1..Len(log[c]) :
              log[c][i].src = "timer" => log[c][i].class = "retryable"
        /\ (/\ Len(log[c]) >= 1
            /\ Last(log[c]).src = "resolved"
            /\ ~OnlyWhiteSpace(rawText[c])) =>
              /\ Done(c)
              /\ AllRetryable(SubSeq(log[c], 1, Len(log[c]) - 1))
              /\ result[c] = SliceHead(Trim(rawText[c]), 2000)
              /\ Len(sleeps[c]) = Len(log[c]) - 1
              /\ backendCalls[c] = Len(log[c])

\* Two timeouts, then "Shipped in 5-7 days." on the third attempt.
C6_Witness ==
    \E c \in Calls :
        /\ Len(log[c]) = 3
        /\ log[c][1].src = "timer"
        /\ log[c][2].src = "timer"
        /\ log[c][3].src = "resolved"
        /\ result[c] = Txt_Shipped
        /\ Len(sleeps[c]) = 2
        /\ backendCalls[c] = 3

\* C7: a response whose text is empty or whitespace-only ends the call at
\* once with the fallback string: no sleep and no backend call follow it,
\* also when attempts remain.
C7_BlankResponseFallsBack ==
    \A c \in Calls :
        (/\ Len(log[c]) >= 1
         /\ Last(log[c]).src = "resolved"
         /\ OnlyWhiteSpace(rawText[c])) =>
            /\ Done(c)
            /\ result[c] = getFallbackMessage
            /\ backendCalls[c] = Len(log[c])
            /\ Len(sleeps[c]) = Len(log[c]) - 1

\* A whitespace-only response on the second attempt of three.
C7_Witness ==
    \E c \in Calls :
        /\ Done(c)
        /\ Len(log[c]) = 2
        /\ Last(log[c]).src = "resolved"
        /\ Len(rawText[c]) >= 1
        /\ OnlyWhiteSpace(rawText[c])

\* C8: the k-th sleep (k = 0, 1, ...) follows the failed retryable attempt
\* k, which is not the last attempt, and lasts RETRY_DELAY_MS * 2^k; a call
\* that is done slept once less than it called the backend.
C8_BackoffSchedule ==
    \A c \in Calls :
        /\ Len(sleeps[c]) <= Len(log[c])
        /\ \A k \in 1..Len(sleeps[c]) :
              /\ sleeps[c][k] = 1000 * 2^(k - 1)
              /\ log[c][k].class = "retryable"
              /\ k - 1 < 3 - 1
        /\ pc[c] = "sleeping" => Len(sleeps[c]) = Len(log[c])
        /\ Done(c) => Len(sleeps[c]) = backendCalls[c] - 1

\* A call that is done after two sleeps.
C8_Witness ==
    \E c \in Calls : Done(c) /\ Len(sleeps[c]) = 2 /\ backendCalls[c] = 3

\* C9: at every moment at most one backend call started by a generateReply
\* call is unresolved.
C9_AtMostOneUnresolvedBackendCall ==
    \A c \in Calls : Cardinality(inflight[c]) <= 1

\* C10: every authentication, authorization or validation failure of the
\* backend is classified non-retryable, whatever its message and whether or
\* not the thrown value is an Error object.
C10_AuthAndValidationNonRetryable ==
    \A c \in Calls :
        (Len(log[c]) >= 1 /\ Last(log[c]).src = "rejected"
            /\ lastThrown[c].category \in {"auth", "validation"}) =>
                Last(log[c]).class = "nonretryable"

\* C11: every transient backend failure (network, 5xx, rate limit) and
\* every timeout is classified retryable, whatever text its message
\* contains.
C11_TransientIsRetryable ==
    \A c \in Calls :
        (Len(log[c]) >= 1 /\ Last(log[c]).src \in {"rejected", "timer"}
            /\ lastThrown[c].category \in {"transient", "timeout"}) =>
                Last(log[c]).class = "retryable"

\* The serialized history is `ser` when it is the lines of the turns, in
\* the order of the history, each followed by a newline except the last:
\* stated position by position, Start(i) being where line i begins.
LineOfTurn(t) ==
    (IF t.sender = "user" THEN <<"U", "s", "e", "r">>
     ELSE <<"A", "s", "s", "i", "s", "t", "a", "n", "t">>)
        \o <<":", " ">> \o t.text

RECURSIVE LineStart(_, _)
LineStart(h, i) ==
    IF i = 1 THEN 1 ELSE LineStart(h, i - 1) + Len(LineOfTurn(h[i - 1])) + 1

IsSerializationOf(ser, h) ==
    /\ Len(ser) = IF Len(h) = 0 THEN 0
                  ELSE LineStart(h, Len(h)) + Len(LineOfTurn(h[Len(h)])) - 1
    /\ \A i \in 1..Len(h) :
          /\ SubSeq(ser, LineStart(h, i),
                    LineStart(h, i) + Len(LineOfTurn(h[i])) - 1) = LineOfTurn(h[i])
          /\ i < Len(h) => ser[LineStart(h, i) + Len(LineOfTurn(h[i]))] = "\n"

\* The prompt with history block `block` and user message m.
PromptAround(block, m) ==
    SYSTEM_PROMPT \o HistoryHeader \o block \o UserCue \o m \o AssistantCue

\* C13: in every prompt sent, the history block is the serialized history
\* itself when that has at most 16000 characters and exactly its last
\* 16000 characters when it is longer; the user message follows it whole.
C13_HistoryTruncatedToSuffix ==
    \A c \in Calls : \A k \in 1..Len(prompts[c]) :
        LET ser == formatHistory(args[c].history)
            block == IF Len(ser) > 16000
                     THEN SubSeq(ser, Len(ser) - 16000 + 1, Len(ser))
                     ELSE ser
        IN  /\ Len(block) <= 16000
            /\ prompts[c][k] = PromptAround(block, args[c].userMessage)

\* A prompt was sent for a serialized history of 16001 characters or more
\* and a user message of 5000 characters.
C13_Witness ==
    \E c \in Calls :
        /\ Len(prompts[c]) >= 1
        /\ Len(formatHistory(args[c].history)) > 16000
        /\ Len(args[c].userMessage) = 5000

\* C14: every prompt sent is the system prompt, the history block, the new
\* user message and the assistant cue in this order, and the history block
\* is made of one line per turn, "User: <text>" or "Assistant: <text>",
\* oldest first, joined by newlines (then cut to the input budget).
C14_PromptLayout ==
    \A c \in Calls : \A k \in 1..Len(prompts[c]) :
        \E ser \in {formatHistory(args[c].history)} :
            /\ IsSerializationOf(ser, args[c].history)
            /\ prompts[c][k] =
                   PromptAround(truncateHistory(ser), args[c].userMessage)

\* A prompt was sent for a history of two turns, a user turn then an ai
\* turn.
C14_Witness ==
    \E c \in Calls :
        /\ Len(prompts[c]) >= 1
        /\ Len(args[c].history) = 2
        /\ args[c].history[1].sender = "user"
        /\ args[c].history[2].sender = "ai"
        /\ args[c].history[1].text # args[c].history[2].text

\* What a call does when it runs alone, as a function of the responses it
\* got (its log and the text of its resolved attempt): a sleep of
\* 1000 * 2^k after each retryable failure of attempt k = 0, 1, and the
\* trimmed, capped text or the fallback as its result.
SoloSleepCount(l) ==
    Cardinality({i \in 1..Len(l) : i < 3 /\ l[i].class = "retryable"})

SoloSleeps(l) == [k \in 1..SoloSleepCount(l) |-> 1000 * 2^(k - 1)]

SoloResult(l, raw) ==
    IF Last(l).class = "reply" THEN SliceHead(Trim(raw), 2000)
    ELSE getFallbackMessage

\* The part of the state that belongs to call c.
CallState(c) ==
    <<pc[c], attempt[c], backendCalls[c], inflight[c], timers[c], sleeps[c],
      log[c], lastError[c], lastThrown[c], rawText[c], result[c], prompts[c]>>

\* C19: with several calls in flight, whatever the interleaving, the
\* number of backend calls, the sleeps and the result of each call are
\* those of a call running alone with the same responses, and a step of
\* one call changes nothing of another call.
C19_CallsIndependent ==
    /\ [](\A c \in Calls :
            /\ backendCalls[c] =
                  Len(log[c]) + (IF pc[c] = "racing" THEN 1 ELSE 0)
            /\ attempt[c] <= 3
            /\ sleeps[c] = SoloSleeps(log[c])
            /\ Done(c) => result[c] = SoloResult(log[c], rawText[c]))
    /\ [][\A c, d \in Calls :
            (c # d /\ CallState(c)' # CallState(c))
                => CallState(d)' = CallState(d)]_vars

\* Two calls in flight at once, at different points of their retry loops.
C19_Witness ==
    /\ pc["r1"] = "sleeping"
    /\ Len(sleeps["r1"]) = 2
    /\ pc["r2"] = "racing"
    /\ Len(sleeps["r2"]) = 1

NoTimeout(c) == \A i \in 1..Len(log[c]) : log[c][i].src # "timer"

SamePrompts(c, d) ==
    \A i \in 1..Len(prompts[c]), j \in 1..Len(prompts[d]) :
        prompts[c][i] = prompts[d][j]

-----------------------------------------------------------------------------
(* Properties of the chat route *)

\* The request got a reply that is not a text of the backend: the provider
\* could not be built, or generateReply ended on a non-retryable error, on
\* exhausted retries or on a blank response.
FailedReply(c) ==
    /\ rpc[c] = "responded"
    /\ response[c].status = 200
    /\ \/ loc[c].providerThrew
       \/ Done(c) /\ Len(log[c]) >= 1 /\ Last(log[c]).class # "reply"

\* The messages of the errors a request can meet.
ErrorDetails == { t.message : t \in RouteThrown } \cup {Msg_KeyRequired}

\* C12: on every failure path (provider construction failure caught by
\* the route, non-retryable failure, retries exhausted, blank response)
\* the reply sent to the user is the one fixed fallback string; requests
\* that failed on different errors got the same text, and the text holds
\* the message of none of the errors.
C12_OneFallbackOnEveryFailure ==
    \A c \in Calls :
        FailedReply(c) =>
            /\ response[c].reply = getFallbackMessage
            /\ \A d \in Calls :
                  FailedReply(d) => response[d].reply = response[c].reply
            /\ \A e \in ErrorDetails : ~Includes(response[c].reply, e)

\* Two requests answered after failures with different error messages.
C12_Witness ==
    /\ FailedReply("r1")
    /\ FailedReply("r2")
    /\ Len(lastThrown["r1"].message) > 0
    /\ Len(lastThrown["r2"].message) > 0
    /\ lastThrown["r1"].message # lastThrown["r2"].message

\* The turns of the conversation of request c, as the store holds them.
StoredTurns(c) == MapHistory(RowsOf(messages, loc[c].conversationId))

\* The same without the turn request c has saved itself, which is the
\* newest of the conversation while c is the only request being served.
EarlierTurns(c) ==
    IF loc[c].saved
    THEN SubSeq(StoredTurns(c), 1, Len(StoredTurns(c)) - 1)
    ELSE StoredTurns(c)

\* C15: when the history was fetched, the history given to generateReply
\* is the most recent turns of the conversation, at most 20 of them and
\* oldest first: the last 20 stored turns, counted with or without the
\* turn of the request itself.
C15_HistoryIsTheLatestTwenty ==
    \A c \in Calls :
        (rpc[c] = "calling" /\ loc[c].fetched) =>
            /\ Len(args[c].history) <= 20
            /\ \/ args[c].history = SliceTail(StoredTurns(c), 20)
               \/ args[c].history = SliceTail(EarlierTurns(c), 20)

\* C16: in every call the handler makes, userMessage is the trimmed
\* message of the request and no turn of history is the turn stored for
\* that message.
C16_HistoryExcludesCurrentMessage ==
    \A c \in Calls :
        rpc[c] = "calling" =>
            /\ args[c].userMessage = Trim(body[c].message)
            /\ \A i \in 1..Len(args[c].history) :
                  args[c].history[i] # Turn("user", loc[c].sanitizedMessage)

\* C17: over requests that follow each other or overlap, at most one
\* provider is ever constructed, every generateReply call runs on that one
\* instance, the variable never changes once set, and a step of one call
\* changes neither the state nor the arguments of another.
C17_ProviderConstructedOnce ==
    /\ [](/\ InstancesMade(createCalls) <= 1
          /\ \A c \in Calls :
                pc[c] # "idle" => (loc[c].provider = 1 /\ llmProvider = 1))
    /\ [][/\ llmProvider # NoProvider => llmProvider' = llmProvider
          /\ \A c, d \in Calls :
                (c # d /\ CallState(c)' # CallState(c)) =>
                    (CallState(d)' = CallState(d) /\ args'[d] = args[d])]_vars

\* Two generateReply calls in flight at once, after one construction.
C17_Witness ==
    /\ pc["r1"] = "racing"
    /\ pc["r2"] = "racing"
    /\ createCalls = <<"constructed">>

\* C18: a missing API key is raised once and not retried: createLLMProvider
\* throws at most once in the life of the process, and a request that met
\* the failure is not answered with a normal (status 200) chat reply.
C18_MissingKeyRaisedOnce ==
    /\ Cardinality({i \in 1..Len(createCalls) : createCalls[i] = "threw"}) <= 1
    /\ \A c \in Calls :
          (loc[c].providerThrew /\ rpc[c] = "responded") =>
              response[c].status # 200

\* C21: a step of generateReply changes neither the store nor the cache;
\* the user turn is stored (or its storing fails) while generateReply has
\* not started, the AI turn and the cache are written only when it has
\* returned (or was never called because no provider could be built), the
\* row stored for the AI turn carries aiReply, and the reply of the
\* response is that same aiReply.
C21_PersistenceAroundTheCall ==
    /\ [](\A c \in Calls :
            pc[c] # "idle" =>
                rpc[c] \in {"calling", "saveAi", "cacheWrite", "responded"})
    /\ [][/\ (\E c \in Calls : CallState(c)' # CallState(c)) =>
                /\ messages' = messages
                /\ conversations' = conversations
                /\ cache' = cache
          /\ \A c \in Calls :
                (rpc[c] = "saveUser" /\ rpc'[c] # "saveUser") =>
                    pc[c] = "idle"
          /\ \A c \in Calls :
                (rpc[c] = "saveAi" /\ rpc'[c] # "saveAi") =>
                    /\ pc[c] = "done" \/ (pc[c] = "idle" /\ loc[c].providerThrew)
                    /\ messages' # messages =>
                          messages' = Append(messages,
                              [conversationId |-> loc[c].conversationId,
                               sender |-> "ai", text |-> loc[c].aiReply])
          /\ cache' # cache =>
                \E c \in Calls :
                    /\ rpc[c] = "cacheWrite"
                    /\ pc[c] = "done" \/ (pc[c] = "idle" /\ loc[c].providerThrew)
          /\ \A c \in Calls :
                rpc[c] \in {"saveAi", "cacheWrite"} =>
                    loc'[c].aiReply = loc[c].aiReply
          /\ \A c \in Calls :
                (rpc[c] = "cacheWrite" /\ rpc'[c] = "responded") =>
                    /\ response'[c].status = 200
                    /\ response'[c].reply = loc[c].aiReply]_vars

\* A request served to the end with Redis on: both turns are in the store,
\* the AI row carries the reply of the response, and the cache is written.
C21_Witness ==
    /\ rpc["r1"] = "responded"
    /\ response["r1"].status = 200
    /\ Done("r1")
    /\ loc["r1"].saved
    /\ redisEnabled
    /\ response["r1"].sessionId \in DOMAIN cache
    /\ \E i \in 1..Len(messages) :
          messages[i] = [conversationId |-> response["r1"].sessionId,
                         sender |-> "ai", text |-> response["r1"].reply]

\* The sender/text pairs of the rows request c fetched from the store.
FetchedTurns(c) ==
    [i \in 1..Len(loc[c].historyMessages) |->
        [sender |-> loc[c].historyMessages[i].sender,
         text |-> loc[c].historyMessages[i].text]]

\* C22: with the store working, when Redis is on and holds an entry for
\* the conversation, the history given to generateReply is the one the
\* request would get with the cache off: the sender/text pairs it fetched
\* from the store.
C22_CacheDoesNotChangeHistory ==
    \A c \in Calls :
        (/\ rpc[c] = "calling"
         /\ faults = 0
         /\ redisEnabled
         /\ loc[c].conversationId \in DOMAIN cache) =>
            args[c].history = FetchedTurns(c)

\* No request is being served and no database operation has failed.
AllServed ==
    /\ faults = 0
    /\ \A c \in Calls : rpc[c] \in {"start", "responded"}

\* C23: after requests that were served with the store and the cache
\* working, the cache entry of a conversation holds at most 20 turns, and
\* they are the last 20 messages of the conversation in the order of the
\* store, each once.
C23_CacheHoldsLastTwenty ==
    AllServed =>
        \A k \in DOMAIN cache :
            /\ Len(cache[k]) <= 20
            /\ cache[k] = SliceTail(MapHistory(RowsOf(messages, k)), 20)

\* C24: with the store working, no two consecutive turns of the history
\* given to generateReply have the same sender.
C24_HistoryAlternates ==
    \A c \in Calls :
        (rpc[c] = "calling" /\ faults = 0) =>
            \A i \in 1..(Len(args[c].history) - 1) :
                args[c].history[i].sender # args[c].history[i + 1].sender

\* The message of the body is missing, empty, blank or over 5000 characters.
InvalidMessage(b) ==
    \/ ~b.present
    \/ Len(b.message) = 0
    \/ \A k \in 1..Len(b.message) : b.message[k] \in WhiteSpace
    \/ Len(b.message) > 5000

C26_TwentyPerMinute ==
    /\ ~traffic.everOver => ~traffic.limited
    /\ chatLimit.hits > 20 => traffic.last = "limited"
    /\ traffic.health # 429

\* C26 amended: the same for a client that, besides, has sent no more than
\* 100 requests to the API within 15 minutes.
C26_TwentyPerMinuteAndHundredPerQuarter ==
    /\ (~traffic.everOver /\ traffic.total <= 100) => ~traffic.limited
    /\ chatLimit.hits > 20 => traffic.last = "limited"
    /\ traffic.health # 429

\* A client that kept to 20 a minute has had 100 chat messages let
\* through, and a GET /health answered.
C26_Witness ==
    /\ ~traffic.everOver
    /\ traffic.total = 100
    /\ ~traffic.limited
    /\ traffic.last = "passed"
    /\ traffic.health = 200

\* C27: the reaction route sets reactions on AI messages only.  No row
\* whose sender is "user" has a reaction; a reaction other than
\* "thumbs_up", "thumbs_down" and null, or none, is answered 400; a
\* message id that the store does not hold is answered 404; and a request
\* answered 400 or 404 changes no reaction.
C27_ReactionsOnAiMessagesOnly ==
    /\ [](/\ \A i \in DOMAIN reactions : messages[i].sender # "user"
          /\ apiResponse.route = "reaction" =>
                /\ ~ValidReaction(apiResponse.reaction)
                      => apiResponse.status = 400
                /\ (/\ ValidReaction(apiResponse.reaction)
                    /\ apiResponse.target \notin 1..Len(messages)
                    /\ apiResponse.thrown = Err_RecordMissing)
                      => apiResponse.status = 404)
    /\ [][(apiResponse'.route = "reaction"
             /\ apiResponse'.status \in {400, 404})
            => reactions' = reactions]_vars

\* A response with an error status, and what the client reads of it.
ApiFailed(r) == r.status \in {400, 404, 500}

ApiBodyOf(r) == ApiBody(r.status, r.error, r.details, r.message)

\* No text of the response holds the message of the error that was caught.
NothingOfTheError(r) ==
    r.thrown # NoError =>
        /\ ~Includes(r.error, r.thrown)
        /\ ~Includes(r.details, r.thrown)
        /\ ~Includes(r.message, r.thrown)

Entities == {Ent_amp, Ent_lt, Ent_gt, Ent_quot, Ent_apos, Ent_slash}

\* A text without <, >, ", ' and /, whose every & starts an entity.
Escaped(text) ==
    \A i \in 1..Len(text) :
        /\ text[i] \notin {"<", ">", "\"", "'", "/"}
        /\ text[i] = "&" =>
              \E e \in Entities : SubSeq(text, i, i + Len(e) - 1) = e

\* C29: the text of every user row of the store and of every user turn of
\* the cache is escaped, and the userMessage given to generateReply is the
\* message of the body, trimmed and nothing else.
C29_StoredAndCachedTextIsEscaped ==
    /\ \A i \in 1..Len(messages) :
          messages[i].sender = "user" => Escaped(messages[i].text)
    /\ \A k \in DOMAIN cache : \A i \in 1..Len(cache[k]) :
          cache[k][i].sender = "user" => Escaped(cache[k][i].text)
    /\ \A c \in Calls :
          rpc[c] = "calling" => args[c].userMessage = Trim(body[c].message)

\* Both requests are served with Redis on: the store and the cache hold
\* the escaped form of the first message, and generateReply was given the
\* markup as it was typed.
C29_Witness ==
    /\ AllServed
    /\ redisEnabled
    /\ \E i \in 1..Len(messages) :
          /\ messages[i].sender = "user"
          /\ messages[i].text = sanitizeInput(Trim(Msg_Markup))
          /\ Includes(messages[i].text, Ent_slash)
    /\ \E k \in DOMAIN cache : \E i \in 1..Len(cache[k]) :
          /\ cache[k][i].sender = "user"
          /\ Includes(cache[k][i].text, Ent_quot)
    /\ Includes(args["r1"].userMessage, <<"<", "/", "a", ">">>)

\* REQUEST_TIMEOUT_MS of the page (+page.svelte line 22): the fetch is
\* aborted after this many milliseconds.
REQUEST_TIMEOUT_MS == 35000

RECURSIVE SumOf(_)
SumOf(s) == IF Len(s) = 0 THEN 0 ELSE Head(s) + SumOf(Tail(s))

\* The attempts of call c that ended because the 30000 ms timer fired.
TimedOut(c) ==
    Cardinality({i \in 1..Len(log[c]) : log[c][i].src = "timer"})

\* The least time call c has taken so far: TIMEOUT_MS for every attempt
\* the timer ended, and the delay of every sleep.
ElapsedAtLeast(c) == TIMEOUT_MS * TimedOut(c) + SumOf(sleeps[c])

\* C30: a generateReply call that has returned has taken no more than the
\* 35000 ms of the frontend's request timeout, its attempts and its sleeps
\* counted.
C30_ReplyWithinFrontendTimeout ==
    \A c \in Calls : Done(c) => ElapsedAtLeast(c) <= REQUEST_TIMEOUT_MS

\* The conversation id of request c has been determined.
IdKnown(c) == loc[c].conversationId # NoSession

\* C31: a request whose conversation id has been determined ends, and it
\* ends with status 200, a reply that is not empty and that conversation
\* id, whatever fails afterwards; a request answered 500 is one whose
\* conversation could not be created.
C31_DegradesToTwoHundred ==
    /\ [](\A c \in Calls :
            /\ (rpc[c] = "responded" /\ IdKnown(c)) =>
                  /\ response[c].status = 200
                  /\ Len(response[c].reply) > 0
                  /\ response[c].sessionId = loc[c].conversationId
            /\ (rpc[c] = "responded" /\ response[c].status = 500) =>
                  ~IdKnown(c))
    /\ \A c \in Calls : IdKnown(c) ~> (rpc[c] = "responded")

\* A request is answered 200 with the fallback although the user turn was
\* not stored, the history was not fetched, the provider could not be
\* built and the AI turn was not stored.
C31_Witness ==
    /\ rpc["r1"] = "responded"
    /\ IdKnown("r1")
    /\ ~loc["r1"].saved
    /\ ~loc["r1"].fetched
    /\ loc["r1"].providerThrew
    /\ response["r1"].status = 200
    /\ ~\E i \in 1..Len(messages) :
          messages[i].conversationId = loc["r1"].conversationId

\* The sessionId request c was sent with.
Supplied(c) == body[c].sessionId

\* C32: the sessionId of a 200 response is the conversation id of the
\* request and names a conversation of the store.  The id is the supplied
\* one exactly when the lookup returned and found it: a lookup that
\* returns the conversation gives the supplied id, a lookup that fails or
\* finds nothing leads to a create, a request without sessionId goes to
\* the create at once, and the create gives an id that no conversation
\* had; an id once determined does not change.
C32_SessionIdNamesAConversation ==
    /\ [](\A c \in Calls :
            (rpc[c] = "responded" /\ response[c].status = 200) =>
                /\ response[c].sessionId = loc[c].conversationId
                /\ response[c].sessionId \in conversations
                /\ response[c].sessionId = Supplied(c) =>
                      Supplied(c) = FirstConversation
                /\ response[c].sessionId # Supplied(c) =>
                      /\ response[c].sessionId # FirstConversation
                      /\ \A d \in Calls \ {c} :
                            loc[d].conversationId # response[c].sessionId)
    /\ [][\A c \in Calls :
            /\ (rpc[c] = "findUnique" /\ rpc'[c] # "findUnique") =>
                  IF faults' = faults /\ Supplied(c) \in conversations
                  THEN /\ rpc'[c] = "saveUser"
                       /\ loc'[c].conversationId = Supplied(c)
                  ELSE rpc'[c] = "createConv"
            /\ (rpc[c] = "start" /\ rpc'[c] \notin {"start", "responded"}) =>
                  rpc'[c] = (IF Supplied(c) = NoSession THEN "createConv"
                             ELSE "findUnique")
            /\ (rpc[c] = "createConv" /\ rpc'[c] = "saveUser") =>
                  /\ loc'[c].conversationId \notin conversations
                  /\ loc'[c].conversationId \in conversations'
            /\ IdKnown(c) =>
                  loc'[c].conversationId = loc[c].conversationId]_vars

\* The first request came with an unknown sessionId and the second with
\* the stored one, whose lookup failed: both are answered 200 with ids
\* created for them.
C32_Witness ==
    /\ Supplied("r1") = UnknownConversation
    /\ Supplied("r2") = FirstConversation
    /\ faults = 1
    /\ \A c \in Calls :
          /\ rpc[c] = "responded"
          /\ response[c].status = 200
          /\ response[c].sessionId \notin {FirstConversation, Supplied(c)}
          /\ response[c].sessionId \in conversations
    /\ response["r1"].sessionId # response["r2"].sessionId

\* The ids of the rows of a conversation, oldest first.
IdsOf(sessionId) ==
    LET ids == [i \in 1..Len(messages) |-> i]
        Mine(i) == messages[i].conversationId = sessionId
    IN  SelectSeq(ids, Mine)

\* C33: a served history request holds the rows of the conversation oldest
\* first, and of a conversation of more than 100 rows the 100 most recent.
C33_HistoryIsTheLatestHundred ==
    (apiResponse.route = "history" /\ apiResponse.status = 200) =>
        LET rows == apiResponse.rows
        IN  /\ Len(rows) <= 100
            /\ \A i \in 1..(Len(rows) - 1) : rows[i].id < rows[i + 1].id
            /\ [i \in 1..Len(rows) |-> rows[i].id]
                  = SliceTail(IdsOf(apiResponse.target), 100)

\* The backend call of attempt a of call c settles in this step, after the
\* timer of the attempt has fired.
SettlesLate(c, a) ==
    /\ a \in inflight[c]
    /\ a \notin inflight'[c]
    /\ a + 1 <= Len(log[c])
    /\ log[c][a + 1].src = "timer"

\* C34: a backend response that arrives after the timer of its attempt
\* has fired changes neither the result of the call, nor where the call
\* is, nor its attempt count, nor its backend calls, nor its sleeps; and
\* the result of a call that has returned is the fallback or the text of
\* the response that won its race.
C34_LateResponseIsIgnored ==
    /\ [](\A c \in Calls :
            Done(c) =>
                \/ result[c] = getFallbackMessage
                \/ /\ Last(log[c]).src = "resolved"
                   /\ result[c] = SuccessValue(rawText[c]))
    /\ [][\A c \in Calls, a \in 0..MAX_RETRIES :
            SettlesLate(c, a) =>
                /\ result'[c] = result[c]
                /\ pc'[c] = pc[c]
                /\ attempt'[c] = attempt[c]
                /\ backendCalls'[c] = backendCalls[c]
                /\ sleeps'[c] = sleeps[c]
                /\ rawText'[c] = rawText[c]
                /\ log'[c] = log[c]]_vars

\* The timer ended attempt 0, its backend call has settled since, and the
\* call has returned the text that attempt 1 got.
C34_Witness ==
    /\ Done("r1")
    /\ Len(log["r1"]) = 2
    /\ log["r1"][1].src = "timer"
    /\ log["r1"][2].class = "reply"
    /\ 0 \notin inflight["r1"]
    /\ result["r1"] = SuccessValue(rawText["r1"])

====
